---- MODULE Spec2Model ----
(***************************************************************************)
(* A model of the personal-finance client: the entity stores               *)
(* (FinancialContext.tsx, the split AccountsProvider/TransactionsProvider, *)
(* the FinancialCoreProvider routed through the REST client), the          *)
(* authentication context, and the aggregation hook.                       *)
(*                                                                         *)
(* Money is modelled in integer units; the remote store is the set of rows *)
(* of the accounts and transactions tables of the migration.               *)
(***************************************************************************)
EXTENDS Integers, Sequences, FiniteSets

VARIABLES
    impl,            \* which store implementation is mounted
    user,            \* AuthContext: the authenticated user, or NoUser
    authToken,       \* localStorage 'authToken', or NoToken
    effectFor,       \* the user value the store's load effect last ran for
    accounts,        \* local collection: sequence of account records
    transactions,    \* local collection: sequence of transaction records
    loading,         \* the store's loading flag
    dbAccounts,      \* remote accounts table: id -> stored balance
    dbTransactions,  \* remote transactions table: set of rows
    nextId,          \* the remote store's next transaction id
    calls,           \* in-flight and finished store calls, by slot
    fetches,         \* in-flight fetchData runs (FinancialCoreProvider)
    initial,         \* history: the balances the ledger run started from
    failures,        \* history: how many calls or requests failed so far
    calc,            \* the aggregation hooks: the clock they read, their result
    budgets,         \* local collection: sequence of budget records
    csv,             \* CSV export and import: the file, the parsed rows, the summary
    api,             \* a useApi hook: its options, its state, its running execute
    remote,          \* the remote tables of the entity stores: a set of rows each
    http             \* the apiClient gateway: the response it handles, what came of it

authVars == <<user, authToken, effectFor>>
vars == <<impl, user, authToken, effectFor, accounts, transactions, loading, dbAccounts,
          dbTransactions, nextId, calls, fetches, initial, failures, calc, budgets, csv, api, remote, http>>

---------------------------------------------------------------------------
\* Bounds of the model.

\* Number of transaction rows the remote store hands an id to in one run.
MaxTx == 2
\* Number of store calls that can be in flight at once.
MaxCalls == 2
\* Number of mutations that can be in flight at once beside the re-fetches
\* of a synchronisation run.
MaxMutations == 1
\* Number of fetchData runs that can be in flight at once.
MaxFetches == 2
\* Number of failures (a remote request answered with an error, a call
\* that ends in its catch block) in one run.
MaxFailures == 1

---------------------------------------------------------------------------
\* Data.

NoUser == "none"
Users == {"u1"}
NoToken == "none"
TokenOf(u) == u
\* effectFor before the store's load effect has run for the first time.
Unmounted == "unmounted"

AccountIds == {"a1", "a2"}
AccountName(id) == IF id = "a1" THEN "Main" ELSE "Side"
InitialBalances == {0, 100}

\* What a draft can carry as its account reference: an account name, an
\* account id, or a reference that names nothing.
AccountRefs == {"Main", "Side", "a1", "a2", "Ghost"}
Amounts == {0, 30}
Types == {"income", "expense"}
Descriptions == {"", "Cafe"}
Dates == {1, 2}

Drafts == [description : Descriptions, amount : Amounts, type : Types,
           account : AccountRefs, date : Dates]

Slots == 1..MaxCalls

---------------------------------------------------------------------------
\* Helpers over sequences.

RECURSIVE SumSeq(_, _)
SumSeq(s, i) == IF i > Len(s) THEN 0 ELSE s[i] + SumSeq(s, i + 1)

Range(s) == {s[i] : i \in 1..Len(s)}

\* Array.prototype.find over the positions of s that satisfy a test:
\* the first such position, 0 when there is none.
FirstIndex(s, hits) ==
    IF hits = {} THEN 0 ELSE CHOOSE i \in hits : \A j \in hits : i <= j

---------------------------------------------------------------------------
\* Records.

NoDraft == [description |-> "", amount |-> 0, type |-> "income",
            account |-> "Ghost", date |-> 1]
NoAccount == [id |-> "", name |-> "", balance |-> 0]
NoTx == [id |-> 0, description |-> "", amount |-> 0, type |-> "income",
         account |-> "", date |-> 1]
NoRow == [id |-> 0, account_id |-> "", description |-> "", amount |-> 0,
          type |-> "income", date |-> 1]
NoSnapshot == [accounts |-> <<>>, transactions |-> <<>>,
               dbAccounts |-> [a \in AccountIds |-> 0], dbTransactions |-> {}]

\* A store call: where it stands (pc), what it captured when it started
\* (draft, txid, the user of its closure, the bearer token of its requests,
\* acct, tx), what the remote store returned (data,
\* currentBalance), the remote requests it has issued (reqs), the
\* notification it ended with (outcome), and the state it started from
\* (before, history only).
NoCall == [pc |-> "idle", kind |-> "none", draft |-> NoDraft, txid |-> 0,
           asUser |-> NoUser, token |-> NoToken,
           acct |-> NoAccount, tx |-> NoTx, data |-> NoRow,
           currentBalance |-> 0, reqs |-> <<>>, outcome |-> "none",
           before |-> NoSnapshot]

\* new Date(str) of a string that is no date: Invalid Date.
InvalidDate == -1

\* No useApi hook mounted.
NoApi == [pc |-> "off"]

\* No response handed to the gateway.
NoHttp == [pc |-> "off"]

\* The remote tables of the entity stores, empty.
NoRemote == [accounts |-> {}, transactions |-> {}, budgets |-> {}]

\* No file exported or uploaded yet.
NoCsv == [pc |-> "none", report |-> <<>>, file |-> <<>>, exported |-> FALSE,
          parsed |-> <<>>, results |-> [success |-> 0, failed |-> 0]]

Snapshot == [accounts |-> accounts, transactions |-> transactions,
             dbAccounts |-> dbAccounts, dbTransactions |-> dbTransactions]

NewCall(kind, draft, txid) ==
    [NoCall EXCEPT !.kind = kind, !.draft = draft, !.txid = txid,
                   !.asUser = user, !.token = authToken,
                   !.before = Snapshot]

\* One remote request and how the remote store answered it.
Req(op, table, key, value, ok) ==
    [op |-> op, table |-> table, key |-> key, value |-> value, ok |-> ok]

Issue(call, req) == [call EXCEPT !.reqs = Append(@, req)]

\* The catch block of a store method: a destructive toast, nothing else.
Caught(call) == [call EXCEPT !.pc = "done", !.outcome = "error"]
\* The success toast at the end of a store method.
Succeeded(call) == [call EXCEPT !.pc = "done", !.outcome = "success"]

Free(c) == calls[c].pc \in {"idle", "done"}
InFlight == {c \in Slots : ~Free(c)}
AllFree == \A c \in Slots : Free(c)
\* A call takes the lowest free slot.
Lowest(c) == Free(c) /\ \A d \in Slots : Free(d) => c <= d

---------------------------------------------------------------------------
\* The remote store (supabase tables of the migration).

\* transactions.account_id REFERENCES accounts(id): an insert naming no
\* account row is rejected.
ForeignKeyOk(account_id) == account_id \in DOMAIN dbAccounts

\* gen_random_uuid(): the row inserted for a draft gets a fresh id.
InsertedRow(draft, account_id) ==
    [id |-> nextId, account_id |-> account_id,
     description |-> draft.description, amount |-> draft.amount,
     type |-> draft.type, date |-> draft.date]

---------------------------------------------------------------------------
\* FinancialContext.tsx: the single-provider store.

\* const balanceChange = type === 'income' ? amount : -amount
AddBalanceChange(t) == IF t.type = "income" THEN t.amount ELSE -t.amount

\* const balanceChange = type === 'income' ? -amount : amount
DeleteBalanceChangeSameSign(t) ==
    IF t.type = "income" THEN t.amount ELSE -t.amount
DeleteBalanceChange(t) == IF t.type = "income" THEN -t.amount ELSE t.amount

\* prev.map(a => a.id === id ? { ...a, balance: a.balance + change } : a)
AdjustBalance(accs, id, change) ==
    [i \in 1..Len(accs) |->
        IF accs[i].id = id
        THEN [accs[i] EXCEPT !.balance = @ + change]
        ELSE accs[i]]

\* prev.filter(t => t.id !== id)
WithoutId(txs, id) == SelectSeq(txs, LAMBDA t : t.id # id)

\* accounts.find(a => a.name === name)
FindAccountByNameOrFirst(name) ==
    LET hits == {i \in 1..Len(accounts) : accounts[i].name = name}
    IN  IF hits = {} /\ Len(accounts) > 0 THEN 1
        ELSE FirstIndex(accounts, hits)
FindAccountByName(name) ==
    FirstIndex(accounts, {i \in 1..Len(accounts) : accounts[i].name = name})

\* transactions.find(t => t.id === id)
FindTransaction(id) ==
    FirstIndex(transactions,
               {i \in 1..Len(transactions) : transactions[i].id = id})

\* addTransaction up to its first await: the guard on the user, the account
\* looked up by name, the insert sent.
\* addTransaction up to its first await, as the call it leaves behind:
\* returned at once without a user; in its catch block when no account has
\* the draft's name or when date.toISOString() throws on an Invalid Date;
\* otherwise awaiting the insert.
FP_addTransaction_sync(transactionData) ==
    LET i == FindAccountByName(transactionData.account)
        call == NewCall("add", transactionData, 0)
    IN  IF user = NoUser THEN [call EXCEPT !.pc = "done"]
        ELSE IF i = 0 THEN Caught(call)
        ELSE IF transactionData.date = InvalidDate
             THEN Caught([call EXCEPT !.acct = accounts[i]])
        ELSE [call EXCEPT !.pc = "insert", !.acct = accounts[i]]

FP_addTransaction(c, transactionData) ==
    /\ impl = "single"
    /\ Lowest(c)
    /\ nextId <= MaxTx
    /\ calls' = [calls EXCEPT ![c] = FP_addTransaction_sync(transactionData)]
    /\ failures' = IF FP_addTransaction_sync(transactionData).outcome = "error"
                    THEN failures + 1 ELSE failures
    /\ failures' <= MaxFailures
    /\ UNCHANGED <<impl, authVars, accounts, transactions, loading, dbAccounts,
                   dbTransactions, nextId, fetches, initial, calc, budgets, csv, api, remote, http>>

\* The insert into transactions answers.
FP_addTransaction_insert(c, ok) ==
    /\ impl = "single"
    /\ calls[c].pc = "insert" /\ calls[c].kind = "add"
    /\ LET call == calls[c]
           accepted == ok /\ ForeignKeyOk(call.acct.id)
           row == InsertedRow(call.draft, call.acct.id)
           sent == Issue(call, Req("insert", "transactions", call.acct.id,
                                   call.draft.amount, accepted))
       IN  IF accepted
           THEN /\ dbTransactions' = dbTransactions \cup {row}
                /\ nextId' = nextId + 1
                /\ calls' = [calls EXCEPT ![c] =
                        [sent EXCEPT !.pc = "balance", !.data = row]]
                /\ UNCHANGED failures
           ELSE /\ calls' = [calls EXCEPT ![c] = Caught(sent)]
                /\ failures' = failures + 1
                /\ UNCHANGED <<dbTransactions, nextId>>
    /\ failures' <= MaxFailures
    /\ UNCHANGED <<impl, authVars, accounts, transactions, loading, dbAccounts,
                   fetches, initial, calc, budgets, csv, api, remote, http>>

\* The catch block of addTransaction, as far as the remote store goes: it
\* sends nothing, so the rows stay as they are.
FP_addTransaction_catch_compensating(rows, data) == rows \ {data}
FP_addTransaction_catch(rows, data) == rows

\* newTransaction: the returned row, with the draft's account name.
FP_newTransaction(data, transactionData) ==
    [id |-> data.id, description |-> data.description, amount |-> data.amount,
     type |-> data.type, account |-> transactionData.account,
     date |-> data.date]

\* The balance update answers; on success the local state is updated.
FP_addTransaction_update(c, ok) ==
    /\ impl = "single"
    /\ calls[c].pc = "balance" /\ calls[c].kind = "add"
    /\ LET call == calls[c]
           balanceChange == AddBalanceChange(call.draft)
           written == call.acct.balance + balanceChange
           sent == Issue(call, Req("update", "accounts", call.acct.id,
                                   written, ok))
       IN  IF ok
           THEN /\ dbAccounts' = [dbAccounts EXCEPT ![call.acct.id] = written]
                /\ accounts' = AdjustBalance(accounts, call.acct.id,
                                             balanceChange)
                /\ transactions' =
                     <<FP_newTransaction(call.data, call.draft)>>
                        \o transactions
                /\ calls' = [calls EXCEPT ![c] = Succeeded(sent)]
                /\ UNCHANGED <<failures, dbTransactions>>
           ELSE /\ calls' = [calls EXCEPT ![c] = Caught(sent)]
                /\ dbTransactions' =
                     FP_addTransaction_catch(dbTransactions, call.data)
                /\ failures' = failures + 1
                /\ UNCHANGED <<dbAccounts, accounts, transactions>>
    /\ failures' <= MaxFailures
    /\ UNCHANGED <<impl, authVars, loading, nextId, fetches, initial, calc, budgets, csv, api, remote, http>>

\* deleteTransaction up to its first await: the transaction and its account
\* looked up locally, the balance procedure called.
FP_deleteTransaction(c, id) ==
    /\ impl = "single"
    /\ Lowest(c)
    /\ LET i == FindTransaction(id)
           j == IF i = 0 THEN 0
                ELSE FindAccountByName(transactions[i].account)
           call == NewCall("delete", NoDraft, id)
       IN  /\ calls' = [calls EXCEPT ![c] =
                IF user = NoUser THEN [call EXCEPT !.pc = "done"]
                ELSE IF i = 0 \/ j = 0 THEN Caught(call)
                ELSE [call EXCEPT !.pc = "rpc", !.tx = transactions[i],
                                  !.acct = accounts[j]]]
           /\ failures' = IF user = NoUser \/ (i # 0 /\ j # 0)
                          THEN failures ELSE failures + 1
    /\ failures' <= MaxFailures
    /\ UNCHANGED <<impl, authVars, accounts, transactions, loading, dbAccounts,
                   dbTransactions, nextId, fetches, initial, calc, budgets, csv, api, remote, http>>

\* supabase.rpc('update_account_balance') answers: on success the stored
\* balance has been changed by balance_change, otherwise the fallback runs.
FP_deleteTransaction_rpc(c, ok) ==
    /\ impl = "single"
    /\ calls[c].pc = "rpc" /\ calls[c].kind = "delete"
    /\ LET call == calls[c]
           balanceChange == DeleteBalanceChange(call.tx)
           sent == Issue(call, Req("rpc", "accounts", call.acct.id,
                                   balanceChange, ok))
       IN  IF ok
           THEN /\ dbAccounts' = [dbAccounts EXCEPT
                                    ![call.acct.id] = @ + balanceChange]
                /\ calls' = [calls EXCEPT ![c] = [sent EXCEPT !.pc = "delete"]]
           ELSE /\ calls' = [calls EXCEPT ![c] = [sent EXCEPT !.pc = "select"]]
                /\ UNCHANGED dbAccounts
    /\ UNCHANGED <<impl, authVars, accounts, transactions, loading,
                   dbTransactions, nextId, fetches, initial, failures, calc, budgets, csv, api, remote, http>>

\* (await ...select('balance')...single()).data?.balance || 0
FP_currentBalance(ok, stored) == IF ok THEN stored ELSE 0

\* The fallback's balance read answers; its error is not looked at.
FP_deleteTransaction_select(c, ok) ==
    /\ impl = "single"
    /\ calls[c].pc = "select" /\ calls[c].kind = "delete"
    /\ LET call == calls[c]
           sent == Issue(call, Req("select", "accounts", call.acct.id,
                                   dbAccounts[call.acct.id], ok))
       IN  calls' = [calls EXCEPT ![c] =
                [sent EXCEPT !.pc = "update",
                             !.currentBalance =
                                 FP_currentBalance(ok, dbAccounts[call.acct.id])]]
    /\ failures' = IF ok THEN failures ELSE failures + 1
    /\ failures' <= MaxFailures
    /\ UNCHANGED <<impl, authVars, accounts, transactions, loading, dbAccounts,
                   dbTransactions, nextId, fetches, initial, calc, budgets, csv, api, remote, http>>

\* The fallback's balance write answers.
FP_deleteTransaction_update(c, ok) ==
    /\ impl = "single"
    /\ calls[c].pc = "update" /\ calls[c].kind = "delete"
    /\ LET call == calls[c]
           written == call.currentBalance + DeleteBalanceChange(call.tx)
           sent == Issue(call, Req("update", "accounts", call.acct.id,
                                   written, ok))
       IN  IF ok
           THEN /\ dbAccounts' = [dbAccounts EXCEPT ![call.acct.id] = written]
                /\ calls' = [calls EXCEPT ![c] = [sent EXCEPT !.pc = "delete"]]
                /\ UNCHANGED failures
           ELSE /\ calls' = [calls EXCEPT ![c] = Caught(sent)]
                /\ failures' = failures + 1
                /\ UNCHANGED dbAccounts
    /\ failures' <= MaxFailures
    /\ UNCHANGED <<impl, authVars, accounts, transactions, loading,
                   dbTransactions, nextId, fetches, initial, calc, budgets, csv, api, remote, http>>

\* The delete of the transaction row answers; on success the local state
\* is updated.
FP_deleteTransaction_delete(c, ok) ==
    /\ impl = "single"
    /\ calls[c].pc = "delete" /\ calls[c].kind = "delete"
    /\ LET call == calls[c]
           sent == Issue(call, Req("delete", "transactions", "",
                                   call.txid, ok))
       IN  IF ok
           THEN /\ dbTransactions' =
                     {r \in dbTransactions : r.id # call.txid}
                /\ accounts' = AdjustBalance(accounts, call.acct.id,
                                             DeleteBalanceChange(call.tx))
                /\ transactions' = WithoutId(transactions, call.txid)
                /\ calls' = [calls EXCEPT ![c] = Succeeded(sent)]
                /\ UNCHANGED failures
           ELSE /\ calls' = [calls EXCEPT ![c] = Caught(sent)]
                /\ failures' = failures + 1
                /\ UNCHANGED <<dbTransactions, accounts, transactions>>
    /\ failures' <= MaxFailures
    /\ UNCHANGED <<impl, authVars, loading, dbAccounts, nextId, fetches,
                   initial, calc, budgets, csv, api, remote, http>>

---------------------------------------------------------------------------
\* The split store: TransactionsProvider beside AccountsProvider. The
\* draft's account field is the account id; the provider holds no accounts.

\* newTransaction: the returned row, its account the row's account_id.
TP_newTransaction(data) ==
    [id |-> data.id, description |-> data.description, amount |-> data.amount,
     type |-> data.type, account |-> data.account_id, date |-> data.date]

\* addTransaction up to its await: the guard on the user, the insert sent.
TP_addTransaction(c, transactionData) ==
    /\ impl = "split"
    /\ Lowest(c)
    /\ nextId <= MaxTx
    /\ LET call == NewCall("add", transactionData, 0)
       IN  calls' = [calls EXCEPT ![c] =
                IF user = NoUser THEN [call EXCEPT !.pc = "done"]
                ELSE [call EXCEPT !.pc = "insert"]]
    /\ UNCHANGED failures
    /\ UNCHANGED <<impl, authVars, accounts, transactions, loading, dbAccounts,
                   dbTransactions, nextId, fetches, initial, calc, budgets, csv, api, remote, http>>

\* The insert answers; on success the row is prepended to the local list.
\* No request goes to the accounts table.
TP_addTransaction_insert(c, ok) ==
    /\ impl = "split"
    /\ calls[c].pc = "insert" /\ calls[c].kind = "add"
    /\ LET call == calls[c]
           accepted == ok /\ ForeignKeyOk(call.draft.account)
           row == InsertedRow(call.draft, call.draft.account)
           sent == Issue(call, Req("insert", "transactions",
                                   call.draft.account, call.draft.amount,
                                   accepted))
       IN  IF accepted
           THEN /\ dbTransactions' = dbTransactions \cup {row}
                /\ nextId' = nextId + 1
                /\ transactions' = <<TP_newTransaction(row)>> \o transactions
                /\ calls' = [calls EXCEPT ![c] =
                        Succeeded([sent EXCEPT !.data = row])]
                /\ UNCHANGED failures
           ELSE /\ calls' = [calls EXCEPT ![c] = Caught(sent)]
                /\ failures' = failures + 1
                /\ UNCHANGED <<dbTransactions, nextId, transactions>>
    /\ failures' <= MaxFailures
    /\ UNCHANGED <<impl, authVars, accounts, loading, dbAccounts, fetches,
                   initial, calc, budgets, csv, api, remote, http>>

\* deleteTransaction up to its first await: the transaction looked up
\* locally, the balance procedure called with its account id.
TP_deleteTransaction(c, id) ==
    /\ impl = "split"
    /\ Lowest(c)
    /\ LET i == FindTransaction(id)
           call == NewCall("delete", NoDraft, id)
       IN  /\ calls' = [calls EXCEPT ![c] =
                IF user = NoUser THEN [call EXCEPT !.pc = "done"]
                ELSE IF i = 0 THEN Caught(call)
                ELSE [call EXCEPT !.pc = "rpc", !.tx = transactions[i]]]
           /\ failures' = IF user = NoUser \/ i # 0
                          THEN failures ELSE failures + 1
    /\ failures' <= MaxFailures
    /\ UNCHANGED <<impl, authVars, accounts, transactions, loading, dbAccounts,
                   dbTransactions, nextId, fetches, initial, calc, budgets, csv, api, remote, http>>

\* supabase.rpc('update_account_balance') answers.
TP_deleteTransaction_rpc(c, ok) ==
    /\ impl = "split"
    /\ calls[c].pc = "rpc" /\ calls[c].kind = "delete"
    /\ LET call == calls[c]
           balanceChange == DeleteBalanceChange(call.tx)
           done == ok /\ call.tx.account \in DOMAIN dbAccounts
           sent == Issue(call, Req("rpc", "accounts", call.tx.account,
                                   balanceChange, done))
       IN  IF done
           THEN /\ dbAccounts' = [dbAccounts EXCEPT
                                    ![call.tx.account] = @ + balanceChange]
                /\ calls' = [calls EXCEPT ![c] = [sent EXCEPT !.pc = "delete"]]
           ELSE /\ calls' = [calls EXCEPT ![c] = [sent EXCEPT !.pc = "select"]]
                /\ UNCHANGED dbAccounts
    /\ UNCHANGED <<impl, authVars, accounts, transactions, loading,
                   dbTransactions, nextId, fetches, initial, failures, calc, budgets, csv, api, remote, http>>

\* The fallback's balance read answers: if(accountError) throw accountError.
TP_deleteTransaction_select(c, ok) ==
    /\ impl = "split"
    /\ calls[c].pc = "select" /\ calls[c].kind = "delete"
    /\ LET call == calls[c]
           found == ok /\ call.tx.account \in DOMAIN dbAccounts
           stored == IF found THEN dbAccounts[call.tx.account] ELSE 0
           sent == Issue(call, Req("select", "accounts", call.tx.account,
                                   stored, found))
       IN  calls' = [calls EXCEPT ![c] =
                IF found
                THEN [sent EXCEPT !.pc = "update", !.currentBalance = stored]
                ELSE Caught(sent)]
    /\ failures' = IF ok THEN failures ELSE failures + 1
    /\ failures' <= MaxFailures
    /\ UNCHANGED <<impl, authVars, accounts, transactions, loading, dbAccounts,
                   dbTransactions, nextId, fetches, initial, calc, budgets, csv, api, remote, http>>

\* The fallback's balance write answers.
TP_deleteTransaction_update(c, ok) ==
    /\ impl = "split"
    /\ calls[c].pc = "update" /\ calls[c].kind = "delete"
    /\ LET call == calls[c]
           written == call.currentBalance + DeleteBalanceChange(call.tx)
           sent == Issue(call, Req("update", "accounts", call.tx.account,
                                   written, ok))
       IN  IF ok
           THEN /\ dbAccounts' = [dbAccounts EXCEPT
                                    ![call.tx.account] = written]
                /\ calls' = [calls EXCEPT ![c] = [sent EXCEPT !.pc = "delete"]]
                /\ UNCHANGED failures
           ELSE /\ calls' = [calls EXCEPT ![c] = Caught(sent)]
                /\ failures' = failures + 1
                /\ UNCHANGED dbAccounts
    /\ failures' <= MaxFailures
    /\ UNCHANGED <<impl, authVars, accounts, transactions, loading,
                   dbTransactions, nextId, fetches, initial, calc, budgets, csv, api, remote, http>>

\* The delete of the transaction row answers; on success the id is
\* filtered out of the local list.
TP_deleteTransaction_delete(c, ok) ==
    /\ impl = "split"
    /\ calls[c].pc = "delete" /\ calls[c].kind = "delete"
    /\ LET call == calls[c]
           sent == Issue(call, Req("delete", "transactions", "",
                                   call.txid, ok))
       IN  IF ok
           THEN /\ dbTransactions' =
                     {r \in dbTransactions : r.id # call.txid}
                /\ transactions' = WithoutId(transactions, call.txid)
                /\ calls' = [calls EXCEPT ![c] = Succeeded(sent)]
                /\ UNCHANGED failures
           ELSE /\ calls' = [calls EXCEPT ![c] = Caught(sent)]
                /\ failures' = failures + 1
                /\ UNCHANGED <<dbTransactions, transactions>>
    /\ failures' <= MaxFailures
    /\ UNCHANGED <<impl, authVars, accounts, loading, dbAccounts, nextId,
                   fetches, initial, calc, budgets, csv, api, remote, http>>

---------------------------------------------------------------------------
\* The ledger specification: a signed-in user, the accounts loaded, and
\* addTransaction / deleteTransaction calls that run one after another,
\* each remote request free to fail.

CalcIdle == [pc |-> "off", now |-> 0, monthlyIncome |-> 0,
             monthlyExpenses |-> 0, budgetStatus |-> <<>>,
             income |-> 0, expenses |-> 0,
             savingsRate |-> [num |-> 0, den |-> 1]]

\* The drafts of a ledger run: the single-provider store is handed account
\* names, the split store account ids; each also a reference naming nothing.
\* No ledger operation reads the date, so one date is drawn.
LedgerDrafts ==
    {d \in Drafts :
        /\ d.date = 1
        /\ d.account \in (IF impl = "single" THEN {"Main", "Side", "Ghost"}
                                             ELSE {"a1", "a2", "Ghost"})}

LoadedAccounts(balances) ==
    <<[id |-> "a1", name |-> AccountName("a1"), balance |-> balances["a1"]],
      [id |-> "a2", name |-> AccountName("a2"), balance |-> balances["a2"]]>>

InitLedger ==
    /\ impl \in {"single", "split"}
    /\ user \in Users
    /\ authToken = TokenOf(user)
    /\ effectFor = user
    /\ dbAccounts \in [AccountIds -> InitialBalances]
    /\ accounts = LoadedAccounts(dbAccounts)
    /\ transactions = <<>>
    /\ loading = FALSE
    /\ dbTransactions = {}
    /\ nextId = 1
    /\ calls = [c \in Slots |-> NoCall]
    /\ fetches = <<>>
    /\ initial = dbAccounts
    /\ failures = 0
    /\ calc = CalcIdle
    /\ budgets = <<>>
    /\ csv = NoCsv
    /\ http = NoHttp
    /\ api = NoApi
    /\ remote = NoRemote

NextLedger ==
    \/ \E c \in Slots, d \in LedgerDrafts : AllFree /\ FP_addTransaction(c, d)
    \/ \E c \in Slots, ok \in BOOLEAN : FP_addTransaction_insert(c, ok)
    \/ \E c \in Slots, ok \in BOOLEAN : FP_addTransaction_update(c, ok)
    \/ \E c \in Slots, id \in 1..MaxTx : AllFree /\ FP_deleteTransaction(c, id)
    \/ \E c \in Slots, ok \in BOOLEAN : FP_deleteTransaction_rpc(c, ok)
    \/ \E c \in Slots, ok \in BOOLEAN : FP_deleteTransaction_select(c, ok)
    \/ \E c \in Slots, ok \in BOOLEAN : FP_deleteTransaction_update(c, ok)
    \/ \E c \in Slots, ok \in BOOLEAN : FP_deleteTransaction_delete(c, ok)
    \/ \E c \in Slots, d \in LedgerDrafts : AllFree /\ TP_addTransaction(c, d)
    \/ \E c \in Slots, ok \in BOOLEAN : TP_addTransaction_insert(c, ok)
    \/ \E c \in Slots, id \in 1..MaxTx : AllFree /\ TP_deleteTransaction(c, id)
    \/ \E c \in Slots, ok \in BOOLEAN : TP_deleteTransaction_rpc(c, ok)
    \/ \E c \in Slots, ok \in BOOLEAN : TP_deleteTransaction_select(c, ok)
    \/ \E c \in Slots, ok \in BOOLEAN : TP_deleteTransaction_update(c, ok)
    \/ \E c \in Slots, ok \in BOOLEAN : TP_deleteTransaction_delete(c, ok)

SpecLedger == InitLedger /\ [][NextLedger]_vars

---------------------------------------------------------------------------
\* The validation schemas.

\* requiredStringSchema = z.string().min(1)
requiredStringSchema(str) == str # ""
\* positiveNumberSchema = z.number().min(0.01): more than nothing, in the
\* model's whole units.
positiveNumberSchema(n) == n > 0
\* transactionSchema, over the fields a draft of the model carries.
transactionSchema(d) ==
    /\ requiredStringSchema(d.description)
    /\ positiveNumberSchema(d.amount)
    /\ d.type \in {"income", "expense"}
    /\ requiredStringSchema(d.account)

---------------------------------------------------------------------------
\* Claims checked under SpecLedger.

\* The signed amount of a transaction: + for an income, - for an expense.
Signed(t) == IF t.type = "income" THEN t.amount ELSE -t.amount

RECURSIVE LedgerSum(_, _, _)
LedgerSum(txs, name, i) ==
    IF i > Len(txs) THEN 0
    ELSE (IF txs[i].account = name THEN Signed(txs[i]) ELSE 0)
         + LedgerSum(txs, name, i + 1)

DoneCalls == {c \in Slots : calls[c].pc = "done"}
HasReq(call, op, table, ok) ==
    \E i \in 1..Len(call.reqs) :
        /\ call.reqs[i].op = op
        /\ call.reqs[i].table = table
        /\ call.reqs[i].ok = ok

C2_BalanceWriteAccompanies ==
    \A c \in DoneCalls :
        (impl = "split" /\ calls[c].outcome = "success") =>
            LET call  == calls[c]
                acct  == IF call.kind = "add" THEN call.data.account_id
                         ELSE call.tx.account
                delta == IF call.kind = "add" THEN Signed(call.data)
                         ELSE -Signed(call.tx)
            IN  \E i \in 1..Len(call.reqs) :
                    /\ call.reqs[i].ok
                    /\ call.reqs[i].table = "accounts"
                    /\ call.reqs[i].key = acct
                    /\ \/ /\ call.reqs[i].op = "rpc"
                          /\ call.reqs[i].value = delta
                       \/ /\ call.reqs[i].op = "update"
                          /\ call.reqs[i].value
                               = call.before.dbAccounts[acct] + delta

\* The stored balance a finished deleteTransaction left behind when its
\* balance adjustment succeeded: the procedure's increment, or the value
\* the fallback wrote.
AdjustedBalance(call) ==
    IF HasReq(call, "rpc", "accounts", TRUE)
    THEN call.before.dbAccounts[call.acct.id] - Signed(call.tx)
    ELSE call.reqs[Len(call.reqs) - 1].value

\* C6: in the single-provider store, an addTransaction whose insert
\* succeeded and whose balance write failed has issued nothing after the
\* failed write, and leaves the inserted row in the remote store with the
\* stored balances as they were; a deleteTransaction whose balance
\* adjustment succeeded and whose delete failed has issued nothing after
\* the failed delete, and leaves the row in the remote store with the
\* stored balance adjusted.
C6_NoCompensation ==
    \A c \in DoneCalls :
        LET call == calls[c]
        IN  /\ (/\ impl = "single" /\ call.kind = "add"
                /\ HasReq(call, "insert", "transactions", TRUE)
                /\ HasReq(call, "update", "accounts", FALSE))
               => /\ Len(call.reqs) = 2
                  /\ call.data \in dbTransactions
                  /\ dbAccounts = call.before.dbAccounts
            /\ (/\ impl = "single" /\ call.kind = "delete"
                /\ HasReq(call, "delete", "transactions", FALSE))
               => /\ ~call.reqs[Len(call.reqs)].ok
                  /\ call.reqs[Len(call.reqs)].op = "delete"
                  /\ \E r \in dbTransactions : r.id = call.txid
                  /\ dbAccounts[call.acct.id] = AdjustedBalance(call)
                  /\ \A a \in AccountIds \ {call.acct.id} :
                        dbAccounts[a] = call.before.dbAccounts[a]

\* C6 witness: an addTransaction ended in its catch block after its insert
\* succeeded and its balance write failed, for a draft that changes the
\* balance.
C6_Witness ==
    \E c \in DoneCalls :
        /\ impl = "single" /\ calls[c].kind = "add"
        /\ calls[c].outcome = "error"
        /\ HasReq(calls[c], "insert", "transactions", TRUE)
        /\ HasReq(calls[c], "update", "accounts", FALSE)
        /\ calls[c].draft.amount > 0

\* C7 (as claimed): addTransaction issues no remote request for a draft
\* that violates transactionSchema.
C7_NoRequestForInvalidDraft ==
    \A c \in Slots :
        (calls[c].kind = "add" /\ ~transactionSchema(calls[c].draft))
            => calls[c].reqs = <<>>

\* Whether the draft of an add call named an existing account when the call
\* started: by name among the local accounts (single provider), by id among
\* the account rows (split store).
AccountExisted(call) ==
    IF impl = "single"
    THEN \E i \in 1..Len(call.before.accounts) :
            call.before.accounts[i].name = call.draft.account
    ELSE call.draft.account \in DOMAIN call.before.dbAccounts

LocalUnchanged(call) ==
    /\ accounts = call.before.accounts
    /\ transactions = call.before.transactions

\* C8 (as claimed): addTransaction creates a remote transaction only for a
\* draft naming an existing account; for a draft naming none it issues no
\* remote request, leaves the local collections unchanged and reports an
\* error.
C8_NoRequestForUnknownAccount ==
    \A c \in Slots :
        LET call == calls[c]
        IN  /\ (call.kind = "add" /\ call.data # NoRow)
                   => AccountExisted(call)
            /\ (call.kind = "add" /\ call.pc = "done" /\ user # NoUser
                                  /\ ~AccountExisted(call))
                   => /\ call.reqs = <<>>
                      /\ LocalUnchanged(call)
                      /\ call.outcome = "error"

\* C8 (amended): with a user signed in, addTransaction creates a remote
\* transaction only for a draft naming an existing account; for a draft
\* naming none, no row is created, the local collections are unchanged and
\* an error is reported. The single-provider store then issues no remote
\* request; the split store issues the insert, which the remote store
\* rejects.
C8_UnknownAccountCreatesNothing ==
    \A c \in Slots :
        LET call == calls[c]
        IN  /\ (call.kind = "add" /\ call.data # NoRow)
                   => AccountExisted(call)
            /\ (call.kind = "add" /\ call.pc = "done" /\ user # NoUser
                                  /\ ~AccountExisted(call))
                   => /\ dbTransactions = call.before.dbTransactions
                      /\ dbAccounts = call.before.dbAccounts
                      /\ LocalUnchanged(call)
                      /\ call.outcome = "error"
                      /\ impl = "single" => call.reqs = <<>>
                      /\ impl = "split" =>
                            /\ Len(call.reqs) = 1
                            /\ call.reqs[1].op = "insert"
                            /\ ~call.reqs[1].ok

\* C8 witness: an addTransaction for a draft naming no account has ended,
\* in the split store, where the insert was sent and rejected.
C8_Witness ==
    \E c \in DoneCalls :
        /\ impl = "split" /\ calls[c].kind = "add"
        /\ ~AccountExisted(calls[c])
        /\ calls[c].outcome = "error"
        /\ Len(calls[c].reqs) = 1

---------------------------------------------------------------------------
\* AuthContext.tsx.

\* signIn: the login request answers; on success the token is stored and
\* the user set, otherwise the rejection leaves both as they were.
Auth_signIn(u, ok) ==
    /\ user = NoUser
    /\ IF ok
       THEN /\ authToken' = TokenOf(u)
            /\ user' = u
       ELSE UNCHANGED <<user, authToken>>
    /\ UNCHANGED <<impl, effectFor, accounts, transactions, loading,
                   dbAccounts, dbTransactions, nextId, calls, fetches,
                   initial, failures, calc, budgets, csv, api, remote, http>>

\* localStorage.removeItem('authToken')
keepItem(token) == token
removeItem(token) == NoToken

\* signOut: setUser(null); localStorage.removeItem('authToken')
Auth_signOut ==
    /\ user # NoUser
    /\ user' = NoUser
    /\ authToken' = removeItem(authToken)
    /\ UNCHANGED <<impl, effectFor, accounts, transactions, loading,
                   dbAccounts, dbTransactions, nextId, calls, fetches,
                   initial, failures, calc, budgets, csv, api, remote, http>>

---------------------------------------------------------------------------
\* The REST backend behind apiClient, as the client's code expects it: it
\* lists a user's rows, creates and deletes transaction rows, and keeps the
\* account balance in step ("O backend deve cuidar da atualizacao do saldo").

\* The row that sorts first: latest date, then latest id.
FirstRow(rows) ==
    CHOOSE r \in rows :
        \A q \in rows : q.date < r.date \/ (q.date = r.date /\ q.id <= r.id)

\* The local record of a transaction row.
TxOfRow(r) ==
    [id |-> r.id, description |-> r.description, amount |-> r.amount,
     type |-> r.type, account |-> r.account_id, date |-> r.date]

\* GET /api/transactions: the rows, most recent first.
RECURSIVE ListTransactions(_)
ListTransactions(rows) ==
    IF rows = {} THEN <<>>
    ELSE <<TxOfRow(FirstRow(rows))>>
            \o ListTransactions(rows \ {FirstRow(rows)})

\* GET /api/accounts
ListAccounts(balances) == LoadedAccounts(balances)

---------------------------------------------------------------------------
\* FinancialCoreProvider: the store routed through apiClient.

\* One fetchData run: its two GETs (answered or not, with the data each
\* returned) and whether one of them was rejected.
NewFetch ==
    [gotA |-> FALSE, gotT |-> FALSE, accountsData |-> <<>>,
     transactionsData |-> <<>>, failed |-> FALSE]

RemoveAt(s, i) == SubSeq(s, 1, i - 1) \o SubSeq(s, i + 1, Len(s))

\* fetchData up to its await, for the user of the calling closure: without
\* a user loading is cleared, otherwise loading is set and both GETs sent.
FetchDataLoading(u) == u # NoUser
FetchDataFetches(u, fs) == IF u = NoUser THEN fs ELSE Append(fs, NewFetch)
FetchDataRoom(u) == u = NoUser \/ Len(fetches) < MaxFetches

\* useEffect(() => { fetchData() }, [user])
Core_effect ==
    /\ impl = "core"
    /\ effectFor # user
    /\ FetchDataRoom(user)
    /\ effectFor' = user
    /\ loading' = FetchDataLoading(user)
    /\ fetches' = FetchDataFetches(user, fetches)
    /\ UNCHANGED <<impl, user, authToken, accounts, transactions,
                   dbAccounts, dbTransactions, nextId, calls, initial,
                   failures, calc, budgets, csv, api, remote, http>>

\* The backend answers GET /api/accounts of a fetchData run.
Core_get_accounts(f, ok) ==
    /\ impl = "core"
    /\ f \in 1..Len(fetches)
    /\ ~fetches[f].gotA /\ ~fetches[f].failed
    /\ fetches' = [fetches EXCEPT ![f] =
            IF ok
            THEN [@ EXCEPT !.gotA = TRUE,
                           !.accountsData = ListAccounts(dbAccounts)]
            ELSE [@ EXCEPT !.failed = TRUE]]
    /\ UNCHANGED <<impl, authVars, accounts, transactions, loading,
                   dbAccounts, dbTransactions, nextId, calls, initial,
                   failures, calc, budgets, csv, api, remote, http>>

\* The backend answers GET /api/transactions of a fetchData run.
Core_get_transactions(f, ok) ==
    /\ impl = "core"
    /\ f \in 1..Len(fetches)
    /\ ~fetches[f].gotT /\ ~fetches[f].failed
    /\ fetches' = [fetches EXCEPT ![f] =
            IF ok
            THEN [@ EXCEPT !.gotT = TRUE,
                           !.transactionsData =
                               ListTransactions(dbTransactions)]
            ELSE [@ EXCEPT !.failed = TRUE]]
    /\ UNCHANGED <<impl, authVars, accounts, transactions, loading,
                   dbAccounts, dbTransactions, nextId, calls, initial,
                   failures, calc, budgets, csv, api, remote, http>>

\* What fetchData stores when Promise.all resolves: the fetched data, in
\* place of the local collection.
KeepLocalOnly(local, fetched) ==
    fetched \o SelectSeq(local, LAMBDA t :
                    \A i \in 1..Len(fetched) : fetched[i].id # t.id)
Core_setFetched(local, fetched) == fetched

\* fetchData after its await: both collections replaced when both GETs
\* were answered, only the toast when one was rejected; loading cleared.
Core_fetchData_then(f) ==
    /\ impl = "core"
    /\ f \in 1..Len(fetches)
    /\ fetches[f].failed \/ (fetches[f].gotA /\ fetches[f].gotT)
    /\ IF fetches[f].failed
       THEN UNCHANGED <<accounts, transactions>>
       ELSE /\ accounts' = Core_setFetched(accounts, fetches[f].accountsData)
            /\ transactions' =
                 Core_setFetched(transactions, fetches[f].transactionsData)
    /\ loading' = FALSE
    /\ fetches' = RemoveAt(fetches, f)
    /\ UNCHANGED <<impl, authVars, dbAccounts, dbTransactions, nextId,
                   calls, initial, failures, calc, budgets, csv, api, remote, http>>

\* [newTransaction, ...prev].sort((a, b) => b.date - a.date): a stable sort,
\* latest date first.
RECURSIVE InsertByDate(_, _)
InsertByDate(x, s) ==
    IF s = <<>> THEN <<x>>
    ELSE IF Head(s).date <= x.date THEN <<x>> \o s
         ELSE <<Head(s)>> \o InsertByDate(x, Tail(s))
RECURSIVE SortByDateDesc(_)
SortByDateDesc(s) ==
    IF s = <<>> THEN <<>>
    ELSE InsertByDate(Head(s), SortByDateDesc(Tail(s)))

\* A core call as it starts: what it captured, without the history of the
\* state it started from.
CoreCall(kind, draft, txid) ==
    [NewCall(kind, draft, txid) EXCEPT !.before = NoSnapshot]
\* A core call as it ends: its kind, its outcome and what the backend
\* returned are kept.
CoreEnded(call, outcome) ==
    [NoCall EXCEPT !.pc = "done", !.kind = call.kind, !.outcome = outcome,
                   !.txid = call.txid, !.data = call.data]

\* addTransaction up to its await: the POST is sent.
Core_addTransaction(c, transactionData) ==
    /\ impl = "core"
    /\ Lowest(c)
    /\ nextId <= MaxTx
    /\ calls' = [calls EXCEPT ![c] =
            [CoreCall("add", transactionData, 0) EXCEPT !.pc = "post"]]
    /\ UNCHANGED <<impl, authVars, accounts, transactions, loading,
                   dbAccounts, dbTransactions, nextId, fetches, initial,
                   failures, calc, budgets, csv, api, remote, http>>

\* The backend handles POST /api/transactions: the row is created and the
\* account's balance adjusted, or the request is rejected (always so
\* without a bearer token or for an unknown account).
Core_addTransaction_post(c, ok) ==
    /\ impl = "core"
    /\ calls[c].pc = "post" /\ calls[c].kind = "add"
    /\ LET call == calls[c]
           accepted == /\ ok
                       /\ call.token # NoToken
                       /\ ForeignKeyOk(call.draft.account)
           row == InsertedRow(call.draft, call.draft.account)
           sent == Issue(call, Req("post", "transactions",
                                   call.draft.account, call.draft.amount,
                                   accepted))
       IN  IF accepted
           THEN /\ dbTransactions' = dbTransactions \cup {row}
                /\ dbAccounts' = [dbAccounts EXCEPT
                        ![row.account_id] = @ + AddBalanceChange(row)]
                /\ nextId' = nextId + 1
                /\ calls' = [calls EXCEPT ![c] =
                        [sent EXCEPT !.pc = "posted", !.data = row]]
           ELSE /\ calls' = [calls EXCEPT ![c] = CoreEnded(sent, "error")]
                /\ UNCHANGED <<dbTransactions, dbAccounts, nextId>>
    /\ UNCHANGED <<impl, authVars, accounts, transactions, loading, fetches,
                   initial, failures, calc, budgets, csv, api, remote, http>>

\* addTransaction after its await: the returned record is put first, the
\* list sorted, and fetchData called.
Core_addTransaction_then(c) ==
    /\ impl = "core"
    /\ calls[c].pc = "posted" /\ calls[c].kind = "add"
    /\ FetchDataRoom(calls[c].asUser)
    /\ transactions' =
         SortByDateDesc(<<TxOfRow(calls[c].data)>> \o transactions)
    /\ loading' = FetchDataLoading(calls[c].asUser)
    /\ fetches' = FetchDataFetches(calls[c].asUser, fetches)
    /\ calls' = [calls EXCEPT ![c] = CoreEnded(@, "success")]
    /\ UNCHANGED <<impl, authVars, accounts, dbAccounts, dbTransactions,
                   nextId, initial, failures, calc, budgets, csv, api, remote, http>>

\* deleteTransaction up to its await: the DELETE is sent.
Core_deleteTransaction(c, id) ==
    /\ impl = "core"
    /\ Lowest(c)
    /\ calls' = [calls EXCEPT ![c] =
            [CoreCall("delete", NoDraft, id) EXCEPT !.pc = "del"]]
    /\ UNCHANGED <<impl, authVars, accounts, transactions, loading,
                   dbAccounts, dbTransactions, nextId, fetches, initial,
                   failures, calc, budgets, csv, api, remote, http>>

\* The backend handles DELETE /api/transactions/:id: the row is removed and
\* the account's balance adjusted back, or the request is rejected (always
\* so without a bearer token or for an id that names no row).
Core_deleteTransaction_del(c, ok) ==
    /\ impl = "core"
    /\ calls[c].pc = "del" /\ calls[c].kind = "delete"
    /\ LET call == calls[c]
           rows == {r \in dbTransactions : r.id = call.txid}
           accepted == ok /\ call.token # NoToken /\ rows # {}
           sent == Issue(call, Req("del", "transactions", "", call.txid,
                                   accepted))
       IN  IF accepted
           THEN /\ dbTransactions' = dbTransactions \ rows
                /\ dbAccounts' =
                     LET row == CHOOSE r \in rows : TRUE
                     IN  [dbAccounts EXCEPT
                            ![row.account_id] = @ + DeleteBalanceChange(row)]
                /\ calls' = [calls EXCEPT ![c] = [sent EXCEPT !.pc = "deleted"]]
           ELSE /\ calls' = [calls EXCEPT ![c] = CoreEnded(sent, "error")]
                /\ UNCHANGED <<dbTransactions, dbAccounts>>
    /\ UNCHANGED <<impl, authVars, accounts, transactions, loading, nextId,
                   fetches, initial, failures, calc, budgets, csv, api, remote, http>>

\* deleteTransaction after its await: the id is filtered out of the local
\* list and fetchData called.
Core_deleteTransaction_then(c) ==
    /\ impl = "core"
    /\ calls[c].pc = "deleted" /\ calls[c].kind = "delete"
    /\ FetchDataRoom(calls[c].asUser)
    /\ transactions' = WithoutId(transactions, calls[c].txid)
    /\ loading' = FetchDataLoading(calls[c].asUser)
    /\ fetches' = FetchDataFetches(calls[c].asUser, fetches)
    /\ calls' = [calls EXCEPT ![c] = CoreEnded(@, "success")]
    /\ UNCHANGED <<impl, authVars, accounts, dbAccounts, dbTransactions,
                   nextId, initial, failures, calc, budgets, csv, api, remote, http>>

---------------------------------------------------------------------------
\* The synchronisation specification: the application has just mounted with
\* nobody signed in; the user signs in and out, and store calls and
\* re-fetches overlap freely.

\* The drafts of a synchronisation run: expenses of one description,
\* amount and date for the first account.
SyncDrafts ==
    {d \in Drafts : d.description = "Cafe" /\ d.amount = 30
                    /\ d.type = "expense" /\ d.account = "a1"
                    /\ d.date = 1}

InitSync ==
    /\ impl = "core"
    /\ user = NoUser
    /\ authToken = NoToken
    /\ effectFor = Unmounted
    /\ accounts = <<>>
    /\ transactions = <<>>
    /\ loading = TRUE
    /\ dbAccounts \in [AccountIds -> {100}]
    /\ dbTransactions = {}
    /\ nextId = 1
    /\ calls = [c \in Slots |-> NoCall]
    /\ fetches = <<>>
    /\ initial = dbAccounts
    /\ failures = 0
    /\ calc = CalcIdle
    /\ budgets = <<>>
    /\ csv = NoCsv
    /\ http = NoHttp
    /\ api = NoApi
    /\ remote = NoRemote

NextSync ==
    \/ \E u \in Users, ok \in BOOLEAN : Auth_signIn(u, ok)
    \/ Auth_signOut
    \/ Core_effect
    \/ \E f \in 1..MaxFetches, ok \in BOOLEAN : Core_get_accounts(f, ok)
    \/ \E f \in 1..MaxFetches, ok \in BOOLEAN : Core_get_transactions(f, ok)
    \/ \E f \in 1..MaxFetches : Core_fetchData_then(f)
    \/ \E c \in Slots, d \in SyncDrafts :
          Cardinality(InFlight) < MaxMutations /\ Core_addTransaction(c, d)
    \/ \E c \in Slots, ok \in BOOLEAN : Core_addTransaction_post(c, ok)
    \/ \E c \in Slots : Core_addTransaction_then(c)
    \/ \E c \in Slots, id \in 1..MaxTx :
          Cardinality(InFlight) < MaxMutations /\ Core_deleteTransaction(c, id)
    \/ \E c \in Slots, ok \in BOOLEAN : Core_deleteTransaction_del(c, ok)
    \/ \E c \in Slots : Core_deleteTransaction_then(c)

SpecSync == InitSync /\ [][NextSync]_vars

---------------------------------------------------------------------------
\* Claims about synchronisation.

NoTwoWithSameId(s) ==
    \A i, j \in 1..Len(s) : s[i].id = s[j].id => i = j

\* The ids the backend has assigned so far.
AssignedIds == 1..(nextId - 1)

\* C3: under any interleaving of re-fetches and add operations, the local
\* transaction list never holds two records with the same id, and every id
\* in it was assigned by the remote store.
C3_UniqueRemoteIds ==
    /\ NoTwoWithSameId(transactions)
    /\ \A i \in 1..Len(transactions) : transactions[i].id \in AssignedIds

\* C4: nothing orders a re-fetch against a mutation: whenever a fetchData
\* run whose GETs were both answered completes, the local collections become
\* exactly the data it fetched, whatever the local collections held and
\* whenever the backend answered.
C4_FetchReplacesWholesale ==
    [][\A f \in 1..MaxFetches :
          (Core_fetchData_then(f) /\ ~fetches[f].failed)
              => /\ transactions' = fetches[f].transactionsData
                 /\ accounts' = fetches[f].accountsData]_vars

\* C4 witness: an addTransaction has completed (its local update made), the
\* row it created is still stored remotely and no other mutation has run
\* since, yet the local list lacks the row: a fetch answered before the POST
\* was applied after the add's local update.
C4_Witness ==
    \E c \in DoneCalls :
        /\ impl = "core"
        /\ calls[c].kind = "add" /\ calls[c].outcome = "success"
        /\ calls[c].data \in dbTransactions
        /\ \A i \in 1..Len(transactions) :
              transactions[i].id # calls[c].data.id

\* C5: once the user is absent (the [user] effect has run for the absent
\* user and no request or call is in flight), the local collections are
\* empty.
C5_EmptyAfterSignOut ==
    (/\ user = NoUser
     /\ effectFor = NoUser
     /\ fetches = <<>>
     /\ InFlight = {})
        => (accounts = <<>> /\ transactions = <<>>)

---------------------------------------------------------------------------
\* The calendar of the aggregation hooks. An instant is a number of ticks;
\* a month index stands for the pair (getFullYear(), getMonth()).

\* Months of the calendar: 0..MaxMonth.
MaxMonth == 2
\* Days of a month.
DaysInMonth == 2
\* Instants of a day; tick 0 is the day's local midnight.
TicksPerDay == 2
\* Transactions in the local list of an aggregation run.
MaxCalcTx == 2

Instants == 0..((MaxMonth + 1) * DaysInMonth * TicksPerDay - 1)

\* new Date(year, month, day): local midnight at the start of that day;
\* day 0 is the last day of the month before.
NewDate(month, day) == (month * DaysInMonth + (day - 1)) * TicksPerDay

\* (date.getFullYear(), date.getMonth())
MonthOf(date) == date \div (DaysInMonth * TicksPerDay)

getStartOfMonth(date) == NewDate(MonthOf(date), 1)
getEndOfMonth(date) == NewDate(MonthOf(date) + 1, 0)

\* .reduce((sum, t) => sum + t.amount, 0)
TotalAmount(txs) == SumSeq([i \in 1..Len(txs) |-> txs[i].amount], 1)

OfType(txs, type) == SelectSeq(txs, LAMBDA t : t.type = type)

\* The aggregation hook's monthly calculations: the transactions dated
\* from getStartOfMonth(now) to getEndOfMonth(now), by type.
monthlyTransactions(txs, now) ==
    SelectSeq(txs, LAMBDA t : /\ t.date >= getStartOfMonth(now)
                              /\ t.date <= getEndOfMonth(now))
monthlyIncome(txs, now) ==
    TotalAmount(OfType(monthlyTransactions(txs, now), "income"))
monthlyExpenses(txs, now) ==
    TotalAmount(OfType(monthlyTransactions(txs, now), "expense"))

\* FinancialContext getMonthlyIncome / getMonthlyExpenses: the transactions
\* of a type whose month and year are the current ones.
getMonthlyIncome(txs, now) ==
    TotalAmount(SelectSeq(txs, LAMBDA t : /\ t.type = "income"
                                          /\ MonthOf(t.date) = MonthOf(now)))
getMonthlyExpenses(txs, now) ==
    TotalAmount(SelectSeq(txs, LAMBDA t : /\ t.type = "expense"
                                          /\ MonthOf(t.date) = MonthOf(now)))

\* categoryTotals[category] || 0: the expense total of a category.
categoryTotal(txs, category) ==
    TotalAmount(SelectSeq(OfType(txs, "expense"),
                          LAMBDA t : t.category = category))

\* budget.limit > 0 ? (spent / budget.limit) * 100 : 0, kept as a fraction.
utilization(spent, limit) ==
    IF limit > 0 THEN [num |-> spent * 100, den |-> limit]
    ELSE [num |-> 0, den |-> 1]

\* utilization < 100 ? 'under' : utilization === 100 ? 'at' : 'over'
budgetStatus(spent, limit) ==
    LET u == utilization(spent, limit)
    IN  IF u.num < 100 * u.den THEN "under"
        ELSE IF u.num = 100 * u.den THEN "at"
        ELSE "over"

\* The hook of part_003 renders: new Date() reads the clock.
Calc_monthly(now) ==
    /\ calc' = [CalcIdle EXCEPT
            !.pc = "hook", !.now = now,
            !.monthlyIncome = monthlyIncome(transactions, now),
            !.monthlyExpenses = monthlyExpenses(transactions, now)]
    /\ UNCHANGED <<impl, authVars, accounts, transactions, loading,
                   dbAccounts, dbTransactions, nextId, calls, fetches,
                   initial, failures, budgets, csv, api, remote, http>>

\* The provider's monthly memos are computed.
FP_getMonthly(now) ==
    /\ calc' = [CalcIdle EXCEPT
            !.pc = "context", !.now = now,
            !.monthlyIncome = getMonthlyIncome(transactions, now),
            !.monthlyExpenses = getMonthlyExpenses(transactions, now)]
    /\ UNCHANGED <<impl, authVars, accounts, transactions, loading,
                   dbAccounts, dbTransactions, nextId, calls, fetches,
                   initial, failures, budgets, csv, api, remote, http>>

\* The budget analysis of useFinancialCalculations.ts: one status per
\* budget (keyed by the budget's id, here by its position).
Calc_budgetAnalysis ==
    /\ calc' = [CalcIdle EXCEPT
            !.pc = "budgets",
            !.budgetStatus =
                [i \in 1..Len(budgets) |->
                    budgetStatus(categoryTotal(transactions,
                                               budgets[i].category),
                                 budgets[i].limit)]]
    /\ UNCHANGED <<impl, authVars, accounts, transactions, loading,
                   dbAccounts, dbTransactions, nextId, calls, fetches,
                   initial, failures, budgets, csv, api, remote, http>>

\* The hook's optional dateRange argument.
NoRange == [start |-> 0, end |-> -1]
\* The midnights a date picker hands over.
Midnights == {NewDate(0, d) : d \in 1..((MaxMonth + 1) * DaysInMonth)}
DateRanges ==
    {NoRange} \cup {r \in [start : Midnights, end : Midnights] :
                        r.start <= r.end}

\* filteredTransactions: all of them without a dateRange, otherwise those
\* dated from dateRange.start to dateRange.end.
filteredTransactions(txs, dateRange) ==
    IF dateRange = NoRange THEN txs
    ELSE SelectSeq(txs, LAMBDA t : /\ t.date >= dateRange.start
                                   /\ t.date <= dateRange.end)

\* income > 0 ? (savings / income) * 100 : 0, kept as a fraction.
savingsRateUnguarded(income, expenses) ==
    [num |-> (income - expenses) * 100, den |-> income]
savingsRate(income, expenses) ==
    IF income > 0 THEN [num |-> (income - expenses) * 100, den |-> income]
    ELSE [num |-> 0, den |-> 1]

\* The hook renders its basic totals over filteredTransactions.
Calc_totals(dateRange) ==
    /\ LET filtered == filteredTransactions(transactions, dateRange)
           income   == TotalAmount(OfType(filtered, "income"))
           expenses == TotalAmount(OfType(filtered, "expense"))
       IN  calc' = [CalcIdle EXCEPT
                !.pc = "totals", !.income = income, !.expenses = expenses,
                !.savingsRate = savingsRate(income, expenses)]
    /\ UNCHANGED <<impl, authVars, accounts, transactions, loading,
                   dbAccounts, dbTransactions, nextId, calls, fetches,
                   initial, failures, budgets, csv, api, remote, http>>

---------------------------------------------------------------------------
\* The aggregation specification: the single-provider store has loaded a
\* user's transactions and budgets, and the hooks render at any instant.

Categories == {"Food"}
CalcAmounts == {10}
BudgetLimits == {0, 10, 20}

CalcTransactions ==
    [description : {"Cafe"}, amount : CalcAmounts, type : Types,
     account : {"Main"}, category : Categories, date : Instants]

\* The local record of a loaded transaction, its id from the remote store.
Loaded(t, id) ==
    [id |-> id, description |-> t.description, amount |-> t.amount,
     type |-> t.type, account |-> t.account, category |-> t.category,
     date |-> t.date]

\* The remote row of a loaded transaction.
RowOfLoaded(t) ==
    [id |-> t.id, account_id |-> "a1", description |-> t.description,
     amount |-> t.amount, type |-> t.type, category |-> t.category,
     date |-> t.date]

CalcLists ==
    UNION {{[i \in 1..n |-> Loaded(ts[i], i)] :
                ts \in [1..n -> CalcTransactions]} : n \in 1..MaxCalcTx}

CalcBudgets ==
    {<<[id |-> "b1", category |-> c, limit |-> l]>> :
        c \in Categories, l \in BudgetLimits}

InitCalc ==
    /\ impl = "single"
    /\ user \in Users
    /\ authToken = TokenOf(user)
    /\ effectFor = user
    /\ dbAccounts = [a \in AccountIds |-> 0]
    /\ accounts = LoadedAccounts(dbAccounts)
    /\ transactions \in CalcLists
    /\ dbTransactions = {RowOfLoaded(t) : t \in Range(transactions)}
    /\ nextId = Len(transactions) + 1
    /\ loading = FALSE
    /\ calls = [c \in Slots |-> NoCall]
    /\ fetches = <<>>
    /\ initial = dbAccounts
    /\ failures = 0
    /\ calc = CalcIdle
    /\ budgets \in CalcBudgets
    /\ csv = NoCsv
    /\ http = NoHttp
    /\ api = NoApi
    /\ remote = NoRemote

NextCalc ==
    \/ \E now \in Instants : Calc_monthly(now)
    \/ \E now \in Instants : FP_getMonthly(now)
    \/ Calc_budgetAnalysis
    \/ \E dateRange \in DateRanges : Calc_totals(dateRange)

SpecCalc == InitCalc /\ [][NextCalc]_vars

---------------------------------------------------------------------------
\* Claims about aggregation.

InCurrentMonth(t, now) == MonthOf(t.date) = MonthOf(now)

\* C9: monthlyIncome and monthlyExpenses count a transaction if and only
\* if its date lies in the current calendar month, from the first instant
\* of its first day to the last instant of its last day.
C9_MonthlyCountsWholeMonth ==
    calc.pc \in {"hook", "context"} =>
        /\ calc.monthlyIncome =
             TotalAmount(SelectSeq(transactions, LAMBDA t :
                /\ t.type = "income" /\ InCurrentMonth(t, calc.now)))
        /\ calc.monthlyExpenses =
             TotalAmount(SelectSeq(transactions, LAMBDA t :
                /\ t.type = "expense" /\ InCurrentMonth(t, calc.now)))

\* C10: for every budget, with spent the expense total of its category,
\* the status is 'at' exactly when spent = limit, 'over' exactly when
\* spent > limit and 'under' exactly when spent < limit.
C10_BudgetStatusBySpent ==
    calc.pc = "budgets" =>
        \A i \in 1..Len(budgets) :
            LET spent == categoryTotal(transactions, budgets[i].category)
                limit == budgets[i].limit
            IN  /\ calc.budgetStatus[i] = "at" <=> spent = limit
                /\ calc.budgetStatus[i] = "over" <=> spent > limit
                /\ calc.budgetStatus[i] = "under" <=> spent < limit

\* C11: savingsRate is exactly 0 whenever the income total is 0, whatever
\* the expense total; otherwise it is (income - expenses) / income as a
\* percentage, and income 1000 with expenses 200 gives 80.
C11_SavingsRate ==
    /\ calc.pc = "totals" =>
          /\ calc.income = 0 =>
                calc.savingsRate.num = 0 /\ calc.savingsRate.den # 0
          /\ calc.income # 0 =>
                /\ calc.savingsRate.den # 0
                /\ calc.savingsRate.num * calc.income
                     = (calc.income - calc.expenses) * 100
                        * calc.savingsRate.den
    /\ savingsRate(1000, 200).num = 80 * savingsRate(1000, 200).den

\* C11 witness: the totals were computed over transactions with expenses
\* and no income.
C11_Witness ==
    calc.pc = "totals" /\ calc.income = 0 /\ calc.expenses > 0

---------------------------------------------------------------------------
\* CSV export (the reports page) and CSV import (ImportStatements.tsx).
\* A file is a sequence of lines, a line the sequence of its cells between
\* delimiters; the texts of the model hold no delimiter themselves.

\* Data rows of an uploaded file.
MaxCsvRows == 2
\* Transactions in the local list before an export.
MaxCsvTx == 1

\* The cells: the text of a 'dd/MM/yyyy' date, the text of an ISO date,
\* a number with or without a minus sign, any other text.
DmyText(dd, mm) == [k |-> "dmy", a |-> dd, b |-> mm, s |-> ""]
IsoText(date) == [k |-> "iso", a |-> date, b |-> 0, s |-> ""]
NumText(neg, n) == [k |-> "num", a |-> n, b |-> IF neg THEN 1 ELSE 0, s |-> ""]
Text(str) == [k |-> "text", a |-> 0, b |-> 0, s |-> str]

MonthsInYear == MaxMonth + 1
\* date.getDate()
DayOf(date) == ((date \div TicksPerDay) % DaysInMonth) + 1
StartOfDay(date) == (date \div TicksPerDay) * TicksPerDay

\* date-fns startOfMonth / endOfMonth (the month's last instant),
\* subMonths(now, 1), and the year as the whole calendar.
startOfMonth(date) == NewDate(MonthOf(date), 1)
endOfMonth(date) == NewDate(MonthOf(date) + 1, 1) - 1
subMonths(date) == date - DaysInMonth * TicksPerDay
startOfYear(date) == NewDate(0, 1)
endOfYear(date) == NewDate(MonthsInYear, 1) - 1

Periods == {"current-month", "last-month", "current-year"}

getPeriodDates(period, now) ==
    CASE period = "current-month" ->
            [start |-> startOfMonth(now), end |-> endOfMonth(now)]
      [] period = "last-month" ->
            [start |-> startOfMonth(subMonths(now)),
             end |-> endOfMonth(subMonths(now))]
      [] period = "current-year" ->
            [start |-> startOfYear(now), end |-> endOfYear(now)]
      [] OTHER -> [start |-> startOfMonth(now), end |-> endOfMonth(now)]

\* t.category; the records the model's addTransaction builds carry none.
CategoryOf(t) == IF "category" \in DOMAIN t THEN t.category ELSE ""

\* One row of generateTransactionsReport, in the order of its keys: Data,
\* Descricao, Tipo, Categoria, Conta, Valor, Recorrente.
ReportRow(t) ==
    <<DmyText(DayOf(t.date), MonthOf(t.date) + 1),
      Text(t.description),
      Text(IF t.type = "income" THEN "Receita" ELSE "Despesa"),
      Text(CategoryOf(t)),
      Text(t.account),
      NumText(FALSE, t.amount),
      Text("Nao")>>

ReportHeader ==
    <<Text("Data"), Text("Descricao"), Text("Tipo"), Text("Categoria"),
      Text("Conta"), Text("Valor"), Text("Recorrente")>>

\* The transactions of the period.
ReportTransactions(txs, period, now) ==
    SelectSeq(txs, LAMBDA t :
        /\ t.date >= getPeriodDates(period, now).start
        /\ t.date <= getPeriodDates(period, now).end)

\* exportToCSV: the header line, then one line per row.
exportToCSV(data) ==
    <<ReportHeader>> \o [i \in 1..Len(data) |-> ReportRow(data[i])]

\* line.toLowerCase().includes('data')
IncludesData(line) ==
    \E i \in 1..Len(line) : line[i].k = "text" /\ line[i].s = "Data"

NaN == [nan |-> TRUE, neg |-> FALSE, n |-> 0]
\* parts[2].trim().replace(/[^\d.,-]/g, '').replace(',', '.') and its
\* parseFloat: a number text gives its number, a text without digits
\* nothing to parse, a date text the digits the slashes or hyphens leave.
AmountStr(cell) ==
    CASE cell.k = "num" -> [nan |-> FALSE, neg |-> cell.b = 1, n |-> cell.a]
      [] cell.k = "text" -> NaN
      [] cell.k = "dmy" -> [nan |-> FALSE, neg |-> FALSE,
                            n |-> cell.a * 100 + cell.b]
      [] cell.k = "iso" -> [nan |-> FALSE, neg |-> TRUE, n |-> cell.a]

\* parts[1].trim()
DescriptionOf(cell) == IF cell.k = "text" THEN cell.s ELSE "#"

\* new Date(dateStr): an ISO text is its date; a text with slashes is read
\* month first, and is no date when that month does not exist; any other
\* text is no date.
ParseDate(cell) ==
    CASE cell.k = "iso" -> cell.a
      [] cell.k = "dmy" -> IF cell.a > MonthsInYear THEN InvalidDate
                           ELSE NewDate(cell.a - 1, cell.b)
      [] OTHER -> InvalidDate

\* The body of parseCSV's loop for one line: the parsed transaction, or
\* nothing when the line has fewer than 3 parts, its amount is NaN or its
\* description is empty.
ParseLine(parts) ==
    IF Len(parts) >= 3
       /\ ~AmountStr(parts[3]).nan
       /\ DescriptionOf(parts[2]) # ""
    THEN <<[date |-> ParseDate(parts[1]),
            description |-> DescriptionOf(parts[2]),
            amount |-> AmountStr(parts[3]).n,
            type |-> IF AmountStr(parts[3]).neg THEN "expense"
                     ELSE "income"]>>
    ELSE <<>>

RECURSIVE ParseLines(_, _)
ParseLines(lines, i) ==
    IF i > Len(lines) THEN <<>>
    ELSE ParseLine(lines[i]) \o ParseLines(lines, i + 1)

\* parseCSV: the first line is skipped when it holds 'data'.
parseCSV(lines) ==
    ParseLines(lines, IF IncludesData(lines[1]) THEN 2 ELSE 1)

\* The export button of the reports page with the transactions report and
\* the CSV format chosen: without data only a notification, otherwise the
\* file is downloaded.
Csv_export(period, now) ==
    /\ impl = "single"
    /\ LET data == ReportTransactions(transactions, period, now)
       IN  csv' = IF data = <<>> THEN [NoCsv EXCEPT !.pc = "nodata"]
                  ELSE [NoCsv EXCEPT !.pc = "exported", !.report = data,
                                     !.file = exportToCSV(data),
                                     !.exported = TRUE]
    /\ UNCHANGED <<impl, authVars, accounts, transactions, loading,
                   dbAccounts, dbTransactions, nextId, calls, fetches,
                   initial, failures, calc, budgets, api, remote, http>>

\* const defaultAccount = accounts[0]?.name || 'Conta Principal'
DefaultAccount ==
    IF Len(accounts) > 0 THEN accounts[1].name ELSE "Conta Principal"

\* The draft handed to addTransaction for a parsed transaction.
ImportDraft(trans) ==
    [description |-> trans.description, amount |-> trans.amount,
     type |-> trans.type, account |-> DefaultAccount, date |-> trans.date]

\* Whether the call addTransaction(...) throws into the loop's try block:
\* an async function hands back a promise, also when it fails.
ThrowsIntoLoop(call) == FALSE

\* handleFileUpload for a .csv file: the content is parsed, addTransaction
\* is called for every parsed transaction without being awaited, the
\* counts are stored and the notification shown.
Csv_handleFileUpload(file, exported) ==
    /\ impl = "single"
    /\ AllFree
    /\ LET parsed == parseCSV(file)
           started == [c \in Slots |->
                          IF c <= Len(parsed)
                          THEN FP_addTransaction_sync(ImportDraft(parsed[c]))
                          ELSE NoCall]
           thrown == {c \in 1..Len(parsed) : ThrowsIntoLoop(started[c])}
           caught == {c \in 1..Len(parsed) : started[c].outcome = "error"}
       IN  /\ Len(parsed) <= MaxCalls
           /\ nextId + Len(parsed) <= MaxTx + 1
           /\ calls' = started
           /\ failures' = failures + Cardinality(caught)
           /\ csv' = [csv EXCEPT
                  !.pc = "uploaded", !.file = file, !.parsed = parsed,
                  !.exported = exported,
                  !.results = [success |-> Len(parsed) - Cardinality(thrown),
                               failed |-> Cardinality(thrown)]]
    /\ failures' <= MaxFailures
    /\ UNCHANGED <<impl, authVars, accounts, transactions, loading,
                   dbAccounts, dbTransactions, nextId, fetches, initial,
                   calc, budgets, api, remote, http>>

---------------------------------------------------------------------------
\* The CSV specification: the single-provider store has loaded a user's
\* accounts and transactions; reports are exported, files uploaded, and the
\* addTransaction calls of an upload run on.

CsvLists ==
    {<<>>} \cup UNION {{[i \in 1..n |-> Loaded(ts[i], i)] :
                ts \in [1..n -> CalcTransactions]} : n \in 1..MaxCsvTx}

\* The lines of uploaded files: two well-formed ones, and lines with too
\* few parts, an amount that is no number, no description, a date that is
\* no date.
CsvDataLines ==
    {<<IsoText(NewDate(1, 1)), Text("Cafe"), NumText(FALSE, 30)>>,
     <<IsoText(NewDate(1, 2)), Text("Cafe"), NumText(TRUE, 30)>>,
     <<IsoText(NewDate(1, 1)), Text("Cafe")>>,
     <<IsoText(NewDate(1, 1)), Text("Cafe"), Text("abc")>>,
     <<IsoText(NewDate(1, 1)), Text(""), NumText(FALSE, 30)>>,
     <<Text("abc"), Text("Cafe"), NumText(FALSE, 30)>>}

CsvHeaderLine == <<Text("Data"), Text("Descricao"), Text("Valor")>>

UploadedFiles ==
    LET rows == UNION {[1..n -> CsvDataLines] : n \in 1..MaxCsvRows}
    IN  rows \cup {<<CsvHeaderLine>> \o r : r \in rows}

InitCsv ==
    /\ impl = "single"
    /\ user \in Users
    /\ authToken = TokenOf(user)
    /\ effectFor = user
    /\ dbAccounts = [a \in AccountIds |-> 100]
    /\ accounts = LoadedAccounts(dbAccounts)
    /\ transactions \in CsvLists
    /\ dbTransactions = {RowOfLoaded(t) : t \in Range(transactions)}
    /\ nextId = Len(transactions) + 1
    /\ loading = FALSE
    /\ calls = [c \in Slots |-> NoCall]
    /\ fetches = <<>>
    /\ initial = dbAccounts
    /\ failures = 0
    /\ calc = CalcIdle
    /\ budgets = <<>>
    /\ csv = NoCsv
    /\ http = NoHttp
    /\ api = NoApi
    /\ remote = NoRemote

NextCsv ==
    \/ \E period \in Periods, now \in Instants : Csv_export(period, now)
    \/ \E file \in UploadedFiles : Csv_handleFileUpload(file, FALSE)
    \/ csv.pc = "exported" /\ Csv_handleFileUpload(csv.file, TRUE)
    \/ \E c \in Slots, ok \in BOOLEAN : FP_addTransaction_insert(c, ok)
    \/ \E c \in Slots, ok \in BOOLEAN : FP_addTransaction_update(c, ok)

SpecCsv == InitCsv /\ [][NextCsv]_vars

---------------------------------------------------------------------------
\* Claims about CSV files.

\* The (date, description, signed amount) tuple of a transaction, the date
\* taken as its calendar day.
CsvTuple(t) ==
    [date |-> IF t.date = InvalidDate THEN InvalidDate
              ELSE StartOfDay(t.date),
     description |-> t.description,
     signed |-> IF t.type = "income" THEN t.amount ELSE -t.amount]

\* C12: exporting a list of transactions as a transactions CSV report and
\* importing that file yields, record for record, the same (date,
\* description, signed amount) tuples.
C12_CsvRoundTrip ==
    (csv.pc = "uploaded" /\ csv.exported) =>
        [i \in 1..Len(csv.parsed) |-> CsvTuple(csv.parsed[i])]
            = [i \in 1..Len(csv.report) |-> CsvTuple(csv.report[i])]

\* The addTransaction calls of the last upload.
ImportCalls == {c \in Slots : c <= Len(csv.parsed)}

\* C13: once the addTransaction calls of an import have all ended, the
\* summary is exact: succeeded is the number of parsed rows whose
\* addTransaction completed successfully, failed the number whose
\* addTransaction failed.
C13_ImportSummaryExact ==
    (csv.pc = "uploaded" /\ AllFree) =>
        /\ csv.results.success =
             Cardinality({c \in ImportCalls : calls[c].outcome = "success"})
        /\ csv.results.failed =
             Cardinality({c \in ImportCalls : calls[c].outcome = "error"})

---------------------------------------------------------------------------
\* useApi.ts: a hook that runs a wrapped function with retries.

\* const { immediate = true, retryCount = 3, retryDelay = 1000 } = options
DefaultRetryCount == 3
DefaultRetryDelay == 1000

\* The retryCount options of the model, the default among them.
RetryCounts == 1..DefaultRetryCount

\* What the wrapped function resolves with, and the messages it rejects
\* with.
ApiData == {"d1", "d2", "d3"}
ApiMessages == {"", "boom"}
NoData == "null"
NoError == "null"

\* The promise execute hands back: that of its own call of attempt. The
\* attempts a timer starts hand theirs to nobody.
NoPromise == [state |-> "none", value |-> "null"]
Pending == [state |-> "pending", value |-> "null"]
\* return data
Resolved(value) == [state |-> "resolved", value |-> value]
\* throw error
Rejected(message) == [state |-> "rejected", value |-> message]
\* The attempt running is the one execute called: none has failed yet.
FirstAttempt == api.attempts = 0
\* setTimeout(attempt, ...); return: the attempt resolves with undefined.
ReturnAfterTimer == Resolved("undefined")

\* The hook as mounted: its options, its state, and its running execute
\* (pc), with the failed attempts (attempts, the closure's counter), the
\* calls of the wrapped function (called, history), the pending timer's
\* delay and whether the failure was notified.
MountedApi(immediate, retryCount) ==
    [pc |-> "idle", immediate |-> immediate, retryCount |-> retryCount,
     retryDelay |-> DefaultRetryDelay,
     data |-> NoData, loading |-> FALSE, error |-> NoError,
     attempts |-> 0, called |-> 0, delay |-> 0, notified |-> FALSE,
     effectRan |-> FALSE, promise |-> NoPromise]

\* if (attempts < retryCount)
ShouldRetryInclusive(attempts, retryCount) == attempts <= retryCount
ShouldRetry(attempts, retryCount) == attempts < retryCount

\* error.message || 'Erro na requisicao'
ErrorMessage(message) == IF message = "" THEN "Erro na requisicao" ELSE message

\* execute up to the first await: loading set, error cleared, the first
\* attempt calls the wrapped function.
Api_started ==
    [api EXCEPT !.pc = "awaiting", !.loading = TRUE, !.error = NoError,
                !.attempts = 0, !.called = 1, !.delay = 0,
                !.notified = FALSE, !.promise = Pending]

\* useEffect(() => { if (immediate) execute() }, [execute, immediate])
Api_effect ==
    /\ api.pc = "idle" /\ ~api.effectRan
    /\ api' = IF api.immediate
              THEN [Api_started EXCEPT !.effectRan = TRUE]
              ELSE [api EXCEPT !.effectRan = TRUE]
    /\ UNCHANGED <<impl, authVars, accounts, transactions, loading,
                   dbAccounts, dbTransactions, nextId, calls, fetches,
                   initial, failures, calc, budgets, csv, remote, http>>

\* refetch(): one execute, here once the one before has settled.
Api_execute ==
    /\ api.pc \in {"idle", "settled"} /\ api.effectRan
    /\ api' = Api_started
    /\ UNCHANGED <<impl, authVars, accounts, transactions, loading,
                   dbAccounts, dbTransactions, nextId, calls, fetches,
                   initial, failures, calc, budgets, csv, remote, http>>

\* The wrapped function resolves: the data is stored.
Api_resolved(data) ==
    /\ api.pc = "awaiting"
    /\ api' = [api EXCEPT !.pc = "settled", !.data = data,
                          !.loading = FALSE, !.error = NoError,
                          !.promise = IF FirstAttempt THEN Resolved(data)
                                      ELSE @]
    /\ UNCHANGED <<impl, authVars, accounts, transactions, loading,
                   dbAccounts, dbTransactions, nextId, calls, fetches,
                   initial, failures, calc, budgets, csv, remote, http>>

\* The wrapped function rejects: the attempt is counted; another one is
\* scheduled, or the failure is stored and notified.
Api_rejected(message) ==
    /\ api.pc = "awaiting"
    /\ LET attempts == api.attempts + 1
       IN  api' = IF ShouldRetry(attempts, api.retryCount)
                  THEN [api EXCEPT !.pc = "timer", !.attempts = attempts,
                                   !.delay = api.retryDelay * attempts,
                                   !.promise =
                                       IF FirstAttempt
                                       THEN ReturnAfterTimer ELSE @]
                  ELSE [api EXCEPT !.pc = "settled", !.attempts = attempts,
                                   !.data = NoData, !.loading = FALSE,
                                   !.error = ErrorMessage(message),
                                   !.notified = TRUE,
                                   !.promise =
                                       IF FirstAttempt
                                       THEN Rejected(message) ELSE @]
    /\ UNCHANGED <<impl, authVars, accounts, transactions, loading,
                   dbAccounts, dbTransactions, nextId, calls, fetches,
                   initial, failures, calc, budgets, csv, remote, http>>

\* setTimeout(attempt, retryDelay * attempts) fires: the wrapped function
\* is called again.
Api_timer ==
    /\ api.pc = "timer"
    /\ api' = [api EXCEPT !.pc = "awaiting", !.called = @ + 1]
    /\ UNCHANGED <<impl, authVars, accounts, transactions, loading,
                   dbAccounts, dbTransactions, nextId, calls, fetches,
                   initial, failures, calc, budgets, csv, remote, http>>

InitApi ==
    /\ impl = "core"
    /\ user = NoUser
    /\ authToken = NoToken
    /\ effectFor = Unmounted
    /\ accounts = <<>>
    /\ transactions = <<>>
    /\ loading = TRUE
    /\ dbAccounts = [a \in AccountIds |-> 0]
    /\ dbTransactions = {}
    /\ nextId = 1
    /\ calls = [c \in Slots |-> NoCall]
    /\ fetches = <<>>
    /\ initial = dbAccounts
    /\ failures = 0
    /\ calc = CalcIdle
    /\ budgets = <<>>
    /\ csv = NoCsv
    /\ http = NoHttp
    /\ api \in {MountedApi(i, n) : i \in BOOLEAN, n \in RetryCounts}
    /\ remote = NoRemote

NextApi ==
    \/ Api_effect
    \/ Api_execute
    \/ \E data \in ApiData : Api_resolved(data)
    \/ \E message \in ApiMessages : Api_rejected(message)
    \/ Api_timer

SpecApi == InitApi /\ [][NextApi]_vars

\* C14: one execute of useApi with the default options calls the wrapped
\* function at most 3 times; it stops at the first attempt that succeeds
\* and stores its data; it surfaces the failure (error set, loading false,
\* notification) only after the third consecutive failed attempt, and
\* loading stays true until then.
C14_BoundedRetry ==
    (api.retryCount = DefaultRetryCount /\ api.pc \in {"awaiting", "timer", "settled"}) =>
        /\ api.called <= 3
        /\ api.pc \in {"awaiting", "timer"} =>
              /\ api.loading /\ api.error = NoError /\ ~api.notified
              /\ api.attempts < 3
        /\ (api.pc = "settled" /\ api.error = NoError) =>
              /\ api.data \in ApiData /\ ~api.loading /\ ~api.notified
              /\ api.called = api.attempts + 1
        /\ (api.error # NoError \/ api.notified) =>
              /\ api.pc = "settled" /\ ~api.loading
              /\ api.attempts = 3 /\ api.called = 3
              /\ api.error # NoError /\ api.notified

\* C14 witness: with the default options an execute has surfaced its
\* failure after three calls.
C14_Witness ==
    /\ api.retryCount = DefaultRetryCount
    /\ api.pc = "settled" /\ api.notified /\ api.called = 3

---------------------------------------------------------------------------
\* The load of the stores: the load effect of the single provider
\* (FinancialContext.tsx), of AccountsProvider (part_001) and of
\* FinancialCoreProvider (part_000).

\* Number of loads a supabase-backed store starts in one run.
MaxLoads == 2

LoadUsers == {"u1", "u2"}

\* .order(key, { ascending: false }) over rows whose keys differ.
RECURSIVE OrderDesc(_, _)
OrderDesc(rows, key) ==
    IF rows = {} THEN <<>>
    ELSE LET first == CHOOSE r \in rows : \A q \in rows : q[key] <= r[key]
         IN  <<first>> \o OrderDesc(rows \ {first}, key)

\* .eq('user_id', user.id)
SelectForAnyUser(rows, u) == rows
SelectForUser(rows, u) == {r \in rows : r.user_id = u}

\* from('accounts').select('*').eq('user_id', ...).order('created_at', desc)
SelectAccounts(u) ==
    OrderDesc(SelectForUser(remote.accounts, u), "created_at")
\* from('transactions').select('*, accounts!...(name)')
\*     .eq('user_id', ...).order('date', desc)
SelectTransactions(u) == OrderDesc(SelectForUser(remote.transactions, u), "date")
\* from('budgets').select('*').eq('user_id', ...).order('created_at', desc)
SelectBudgets(u) == OrderDesc(SelectForUser(remote.budgets, u), "created_at")

\* The local record of an account row.
FP_loadedAccount(a) ==
    [id |-> a.id, name |-> a.name, balance |-> a.balance,
     createdAt |-> a.created_at]
\* t.accounts?.name || '': the name of the account row the foreign key
\* joins, the empty string without one.
JoinedName(t) ==
    LET joined == {a \in remote.accounts : a.id = t.account_id}
    IN  IF joined = {} THEN "" ELSE (CHOOSE a \in joined : TRUE).name
\* The local record of a transaction row of the single provider.
FP_loadedTransaction(t) ==
    [id |-> t.id, description |-> t.description, amount |-> t.amount,
     type |-> t.type, account |-> JoinedName(t), date |-> t.date]
\* The local record of a budget row.
FP_loadedBudget(b) ==
    [id |-> b.id, category |-> b.category, limit |-> b.budget_limit,
     spent |-> b.spent]

\* setAccounts(accountsData?.map(...) || []) and its like: the local
\* collection made of the rows returned, in their order.
FP_setAccounts(data) == [i \in 1..Len(data) |-> FP_loadedAccount(data[i])]
FP_setTransactions(data) ==
    [i \in 1..Len(data) |-> FP_loadedTransaction(data[i])]
FP_setBudgets(data) == [i \in 1..Len(data) |-> FP_loadedBudget(data[i])]

\* One load of a supabase-backed store: the user of its closure, the select
\* it awaits (pc), how it ended (outcome), and whether no other load was in
\* flight while it ran (alone, history only).
LoadsInFlight(fs) == {f \in 1..Len(fs) : fs[f].pc # "done"}
NewLoad(kind, u) ==
    [kind |-> kind, asUser |-> u, pc |-> "accounts", outcome |-> "none",
     alone |-> LoadsInFlight(fetches) = {}]
Overlapped(fs) ==
    [f \in 1..Len(fs) |->
        IF fs[f].pc # "done" THEN [fs[f] EXCEPT !.alone = FALSE] ELSE fs[f]]
StartLoad(kind, u) == Append(Overlapped(fetches), NewLoad(kind, u))

\* finally { setLoading(false) }
FinallyKeepsLoading(l) == l
FinallySetLoading(l) == FALSE

\* catch { toast } finally { setLoading(false) }
LoadCaught(f) ==
    /\ fetches' = [fetches EXCEPT ![f] =
            [@ EXCEPT !.pc = "done", !.outcome = "error"]]
    /\ loading' = FinallySetLoading(loading)
\* The try block ran to its end; finally { setLoading(false) }
LoadEnded(f) ==
    /\ fetches' = [fetches EXCEPT ![f] =
            [@ EXCEPT !.pc = "done", !.outcome = "success"]]
    /\ loading' = FinallySetLoading(loading)
\* The next select of loadAllData is sent.
LoadAwaits(f, pc) ==
    /\ fetches' = [fetches EXCEPT ![f] = [@ EXCEPT !.pc = pc]]
    /\ UNCHANGED loading

\* The load effect of the single provider and loadAllData up to its first
\* await: without a user loading is cleared, otherwise loading is set and
\* the accounts select sent.
FP_effect ==
    /\ impl = "single"
    /\ effectFor # user
    /\ user # NoUser => Len(fetches) < MaxLoads
    /\ effectFor' = user
    /\ IF user = NoUser
       THEN loading' = FALSE /\ UNCHANGED fetches
       ELSE loading' = TRUE /\ fetches' = StartLoad("loadAllData", user)
    /\ UNCHANGED <<impl, user, authToken, accounts, transactions,
                   dbAccounts, dbTransactions, nextId, calls, initial,
                   failures, calc, budgets, csv, api, remote, http>>

\* The accounts select answers.
FP_loadAllData_accounts(f, ok) ==
    /\ impl = "single"
    /\ f \in 1..Len(fetches) /\ fetches[f].pc = "accounts"
    /\ IF ok
       THEN /\ accounts' =
                 FP_setAccounts(SelectAccounts(fetches[f].asUser))
            /\ LoadAwaits(f, "transactions")
       ELSE /\ LoadCaught(f)
            /\ UNCHANGED accounts
    /\ UNCHANGED <<impl, authVars, transactions, dbAccounts, dbTransactions,
                   nextId, calls, initial, failures, calc, budgets, csv,
                   api, remote, http>>

\* The transactions select answers.
FP_loadAllData_transactions(f, ok) ==
    /\ impl = "single"
    /\ f \in 1..Len(fetches) /\ fetches[f].pc = "transactions"
    /\ IF ok
       THEN /\ transactions' =
                 FP_setTransactions(SelectTransactions(fetches[f].asUser))
            /\ LoadAwaits(f, "credit_cards")
       ELSE /\ LoadCaught(f)
            /\ UNCHANGED transactions
    /\ UNCHANGED <<impl, authVars, accounts, dbAccounts, dbTransactions,
                   nextId, calls, initial, failures, calc, budgets, csv,
                   api, remote, http>>

\* The credit cards select answers.
FP_loadAllData_creditCards(f, ok) ==
    /\ impl = "single"
    /\ f \in 1..Len(fetches) /\ fetches[f].pc = "credit_cards"
    /\ IF ok THEN LoadAwaits(f, "financial_goals") ELSE LoadCaught(f)
    /\ UNCHANGED <<impl, authVars, accounts, transactions, dbAccounts,
                   dbTransactions, nextId, calls, initial, failures, calc,
                   budgets, csv, api, remote, http>>

\* The goals select answers.
FP_loadAllData_goals(f, ok) ==
    /\ impl = "single"
    /\ f \in 1..Len(fetches) /\ fetches[f].pc = "financial_goals"
    /\ IF ok THEN LoadAwaits(f, "budgets") ELSE LoadCaught(f)
    /\ UNCHANGED <<impl, authVars, accounts, transactions, dbAccounts,
                   dbTransactions, nextId, calls, initial, failures, calc,
                   budgets, csv, api, remote, http>>

\* The budgets select answers: the last of the load.
FP_loadAllData_budgets(f, ok) ==
    /\ impl = "single"
    /\ f \in 1..Len(fetches) /\ fetches[f].pc = "budgets"
    /\ IF ok
       THEN /\ budgets' =
                 FP_setBudgets(SelectBudgets(fetches[f].asUser))
            /\ LoadEnded(f)
       ELSE /\ LoadCaught(f)
            /\ UNCHANGED budgets
    /\ UNCHANGED <<impl, authVars, accounts, transactions, dbAccounts,
                   dbTransactions, nextId, calls, initial, failures, calc,
                   csv, api, remote, http>>

\* The load effect of AccountsProvider and loadAccounts up to its await.
AP_effect ==
    /\ impl = "split"
    /\ effectFor # user
    /\ user # NoUser => Len(fetches) < MaxLoads
    /\ effectFor' = user
    /\ IF user = NoUser
       THEN loading' = FALSE /\ UNCHANGED fetches
       ELSE loading' = TRUE /\ fetches' = StartLoad("loadAccounts", user)
    /\ UNCHANGED <<impl, user, authToken, accounts, transactions,
                   dbAccounts, dbTransactions, nextId, calls, initial,
                   failures, calc, budgets, csv, api, remote, http>>

\* The accounts select of loadAccounts answers.
AP_loadAccounts_select(f, ok) ==
    /\ impl = "split"
    /\ f \in 1..Len(fetches) /\ fetches[f].pc = "accounts"
    /\ IF ok
       THEN /\ accounts' =
                 FP_setAccounts(SelectAccounts(fetches[f].asUser))
            /\ LoadEnded(f)
       ELSE /\ LoadCaught(f)
            /\ UNCHANGED accounts
    /\ UNCHANGED <<impl, authVars, transactions, dbAccounts, dbTransactions,
                   nextId, calls, initial, failures, calc, budgets, csv,
                   api, remote, http>>

\* The rows of the remote tables of a load run: two users, the first with
\* two accounts, two transactions and a budget, the second with one of each.
LoadAccountRows ==
    {[id |-> "a1", user_id |-> "u1", name |-> "Main", balance |-> 100,
      created_at |-> 1],
     [id |-> "a2", user_id |-> "u1", name |-> "Side", balance |-> 0,
      created_at |-> 2],
     [id |-> "a3", user_id |-> "u2", name |-> "Main", balance |-> 50,
      created_at |-> 3]}
LoadTransactionRows ==
    {[id |-> 1, user_id |-> "u1", account_id |-> "a1",
      description |-> "Cafe", amount |-> 30, type |-> "expense", date |-> 2],
     [id |-> 2, user_id |-> "u1", account_id |-> "a2",
      description |-> "Pay", amount |-> 100, type |-> "income", date |-> 1],
     [id |-> 3, user_id |-> "u2", account_id |-> "a3",
      description |-> "Cafe", amount |-> 30, type |-> "expense", date |-> 1]}
LoadBudgetRows ==
    {[id |-> "b1", user_id |-> "u1", category |-> "Food",
      budget_limit |-> 100, spent |-> 0, created_at |-> 1],
     [id |-> "b2", user_id |-> "u2", category |-> "Food",
      budget_limit |-> 50, spent |-> 0, created_at |-> 2]}
LoadRemotes ==
    {[accounts |-> LoadAccountRows, transactions |-> ts,
      budgets |-> LoadBudgetRows] : ts \in {{}, LoadTransactionRows}}
\* The transaction rows behind the REST backend of a load run.
LoadCoreRows ==
    {{}, {InsertedRow([description |-> "Cafe", amount |-> 30,
                       type |-> "expense", account |-> "a1", date |-> 1],
                      "a1")}}

InitLoad ==
    /\ impl \in {"single", "split", "core"}
    /\ user = NoUser
    /\ authToken = NoToken
    /\ effectFor = Unmounted
    /\ accounts = <<>>
    /\ transactions = <<>>
    /\ loading = TRUE
    /\ nextId = 1
    /\ dbAccounts \in [AccountIds -> {100}]
    /\ dbTransactions \in (IF impl = "core" THEN LoadCoreRows ELSE {{}})
    /\ calls = [c \in Slots |-> NoCall]
    /\ fetches = <<>>
    /\ initial = dbAccounts
    /\ failures = 0
    /\ calc = CalcIdle
    /\ budgets = <<>>
    /\ csv = NoCsv
    /\ http = NoHttp
    /\ api = NoApi
    /\ remote \in (IF impl = "core" THEN {NoRemote} ELSE LoadRemotes)

LoadAnswers ==
    \/ \E f \in 1..MaxLoads, ok \in BOOLEAN : FP_loadAllData_accounts(f, ok)
    \/ \E f \in 1..MaxLoads, ok \in BOOLEAN : FP_loadAllData_transactions(f, ok)
    \/ \E f \in 1..MaxLoads, ok \in BOOLEAN : FP_loadAllData_creditCards(f, ok)
    \/ \E f \in 1..MaxLoads, ok \in BOOLEAN : FP_loadAllData_goals(f, ok)
    \/ \E f \in 1..MaxLoads, ok \in BOOLEAN : FP_loadAllData_budgets(f, ok)
    \/ \E f \in 1..MaxLoads, ok \in BOOLEAN : AP_loadAccounts_select(f, ok)
    \/ \E f \in 1..MaxFetches, ok \in BOOLEAN : Core_get_accounts(f, ok)
    \/ \E f \in 1..MaxFetches, ok \in BOOLEAN : Core_get_transactions(f, ok)
    \/ \E f \in 1..MaxFetches : Core_fetchData_then(f)

LoadEffects == FP_effect \/ AP_effect \/ Core_effect

NextLoad ==
    \/ \E u \in LoadUsers, ok \in BOOLEAN : Auth_signIn(u, ok)
    \/ Auth_signOut
    \/ LoadEffects
    \/ LoadAnswers

SpecLoad == InitLoad /\ [][NextLoad]_vars

\* React runs a pending effect, every remote call eventually answers, and
\* a continuation whose promise has settled eventually runs.
SpecLoadFair ==
    /\ SpecLoad
    /\ WF_vars(LoadEffects)
    /\ WF_vars(LoadAnswers)

\* A load ends in this step: a supabase-backed load reaches its finally,
\* or a fetchData run leaves the list of the runs in flight.
LoadFinishes ==
    IF impl = "core"
    THEN Len(fetches') < Len(fetches)
    ELSE \E f \in LoadsInFlight(fetches) : fetches'[f].pc = "done"

\* C15: every load of a store eventually ends with loading = false, whether
\* its fetch succeeds or fails, given that every remote call eventually
\* answers: loading never stays true for ever, every load of a
\* supabase-backed store that is in flight eventually ends, and the step
\* that ends a load leaves loading false. When the load effect runs with
\* no user authenticated, it leaves loading false and issues no fetch.
C15_LoadEndsLoading ==
    /\ (loading = TRUE) ~> (loading = FALSE)
    /\ \A f \in 1..MaxLoads :
          (impl # "core" /\ f \in LoadsInFlight(fetches))
              ~> (impl # "core" /\ f \in 1..Len(fetches)
                    /\ f \notin LoadsInFlight(fetches))
    /\ [][LoadFinishes => loading' = FALSE]_vars
    /\ [][(effectFor' # effectFor /\ user = NoUser)
             => (loading' = FALSE /\ fetches' = fetches)]_vars

\* C15 witness: a load of the single provider has failed at one of its
\* selects, no load is in flight and loading is false.
C15_Witness ==
    /\ impl = "single"
    /\ \E f \in 1..Len(fetches) : fetches[f].outcome = "error"
    /\ LoadsInFlight(fetches) = {}
    /\ loading = FALSE

\* A local collection holds exactly the given rows: every row once, by id,
\* and nothing else.
HoldsExactly(local, rows) ==
    /\ Len(local) = Cardinality(rows)
    /\ \A r \in rows : \E i \in 1..Len(local) : local[i].id = r.id
\* The rows of a remote table that belong to the signed-in user.
RowsOfUser(rows) == {r \in rows : r.user_id = user}
\* A load of a supabase-backed store ends with success in this step, having
\* run with no other load in flight, for the user still signed in.
LoadSucceedsAlone(f) ==
    /\ impl # "core"
    /\ f \in LoadsInFlight(fetches)
    /\ fetches'[f].pc = "done" /\ fetches'[f].outcome = "success"
    /\ fetches[f].alone
    /\ fetches[f].asUser = user

\* C16: after a load that succeeds with no other operation in flight, each
\* local collection the store loads holds exactly the records of the
\* signed-in user in the remote store, each once and with the remote
\* values, whatever the collection held before (accounts, transactions and
\* budgets in the single provider, accounts in AccountsProvider, accounts
\* and transactions in FinancialCoreProvider).
C16_LoadReplacesWholesale ==
    [][/\ \A f \in 1..MaxLoads : LoadSucceedsAlone(f) =>
            /\ HoldsExactly(accounts', RowsOfUser(remote.accounts))
            /\ \A i \in 1..Len(accounts') :
                  \E r \in remote.accounts :
                      /\ r.id = accounts'[i].id
                      /\ r.name = accounts'[i].name
                      /\ r.balance = accounts'[i].balance
            /\ impl = "single" =>
                  /\ HoldsExactly(transactions',
                                  RowsOfUser(remote.transactions))
                  /\ \A i \in 1..Len(transactions') :
                        \E r \in remote.transactions :
                            /\ r.id = transactions'[i].id
                            /\ r.amount = transactions'[i].amount
                            /\ r.date = transactions'[i].date
                  /\ HoldsExactly(budgets', RowsOfUser(remote.budgets))
                  /\ \A i \in 1..Len(budgets') :
                        \E r \in remote.budgets :
                            /\ r.id = budgets'[i].id
                            /\ r.budget_limit = budgets'[i].limit
       /\ (impl = "core" /\ Len(fetches) = 1 /\ fetches' = <<>>
              /\ ~fetches[1].failed) =>
            /\ Len(accounts') = Cardinality(AccountIds)
            /\ \A a \in AccountIds : \E i \in 1..Len(accounts') :
                  /\ accounts'[i].id = a
                  /\ accounts'[i].balance = dbAccounts[a]
            /\ HoldsExactly(transactions', dbTransactions)
      ]_vars

\* C16 witness: the single provider has loaded the first user's records,
\* and then, alone and with success, the second user's, who is signed in:
\* the local collections held another user's records before the load.
C16_Witness ==
    /\ impl = "single"
    /\ Len(fetches) = 2
    /\ fetches[1].outcome = "success" /\ fetches[1].asUser = "u1"
    /\ fetches[2].outcome = "success" /\ fetches[2].asUser = "u2"
    /\ fetches[2].alone
    /\ user = "u2"
    /\ transactions # <<>>

---------------------------------------------------------------------------
\* The entity stores: add, update and delete of accounts in the single
\* provider (FinancialContext.tsx) and in FinancialCoreProvider (part_000),
\* add and update of budgets in the single provider.

\* Number of store operations started in one run.
MaxOps == 2
\* Number of rows the remote store creates in one run.
MaxAdds == 2

OpSlots == 1..MaxOps
\* The ids the remote store assigns, in the order it assigns them.
NewIds == <<"n1", "n2", "n3", "n4">>
\* created_at of the row the remote store creates next.
CreatedAt == 10 + nextId

\* What the forms hand to add: the draft fields of an account, of a budget.
AccountDrafts == {[name |-> "New", balance |-> 0]}
BudgetDrafts == {[category |-> "Fun", limit |-> 40]}
\* What update is handed: some of the draft fields.
AccountPartials ==
    {[name |-> "Renamed"], [balance |-> 5],
     [name |-> "Renamed", balance |-> 5]}
BudgetPartials == {[limit |-> 60], [category |-> "Fun", spent |-> 10]}
\* The ids update and delete are handed: of a row of the user, of a row
\* the run creates, of another user's row, of no row.
AccountIdArgs == {"a1", "a2", "n1", "a3", "zz"}
BudgetIdArgs == {"b1", "n1", "zz"}

\* { ...record, ...partial }
Merge(record, partial) ==
    [k \in DOMAIN record \cup DOMAIN partial |->
        IF k \in DOMAIN partial THEN partial[k] ELSE record[k]]
\* The partial put in place of the record.
Replace(record, partial) == partial

\* updateData of updateAccount: the fields of accountData that are defined,
\* under the column of the same name.
AccountColumns == {"name", "balance"}
AccountUpdateData(accountData) ==
    [k \in DOMAIN accountData \cap AccountColumns |-> accountData[k]]
\* updateData of updateBudget: limit goes to the column budget_limit.
BudgetField(column) == IF column = "budget_limit" THEN "limit" ELSE column
BudgetColumn(field) == IF field = "limit" THEN "budget_limit" ELSE field
BudgetFields == {"category", "limit", "spent"}
BudgetUpdateData(budgetData) ==
    [k \in {BudgetColumn(f) : f \in DOMAIN budgetData \cap BudgetFields} |->
        budgetData[BudgetField(k)]]

\* prev.map(x => x.id === id ? { ...x, ...partial } : x)
MergeWhereId(s, id, partial) ==
    [i \in 1..Len(s) |->
        IF s[i].id = id THEN Merge(s[i], partial) ELSE s[i]]
\* prev.map(x => x.id === id ? record : x)
ReplaceWhereId(s, id, record) ==
    [i \in 1..Len(s) |-> IF s[i].id = id THEN record ELSE s[i]]
\* [x, ...prev]
AppendLast(x, prev) == Append(prev, x)
Prepend(x, prev) == <<x>> \o prev
\* prev.filter(x => x.id !== id)
FilterOutFirst(s, id) == IF s = <<>> THEN s ELSE Tail(s)
FilterOutId(s, id) == SelectSeq(s, LAMBDA x : x.id # id)

\* update(payload).eq('id', id).eq('user_id', user.id) over a table
UpdateRows(rows, id, u, payload) ==
    {IF r.id = id /\ r.user_id = u THEN Merge(r, payload) ELSE r : r \in rows}
\* delete().eq('id', id).eq('user_id', user.id) over a table
DeleteRows(rows, id, u) == {r \in rows : ~(r.id = id /\ r.user_id = u)}

\* A store operation as it starts: its kind, what it was handed (draft: the
\* draft or the partial; txid: the id), its closure's user and token.
StoreCall(kind, draft, id) ==
    [CoreCall(kind, draft, 0) EXCEPT !.txid = id]
\* An operation takes the next unused slot; at most MaxCalls are in flight.
OpsInFlight == {c \in OpSlots : calls[c].pc \notin {"idle", "done"}}
NextOp(c) ==
    /\ c \in OpSlots
    /\ calls[c].pc = "idle"
    /\ \A d \in OpSlots : d < c => calls[d].pc # "idle"
    /\ Cardinality(OpsInFlight) < MaxCalls
\* if (!user) return; otherwise the request is sent.
FP_started(call, pc) ==
    IF user = NoUser THEN [call EXCEPT !.pc = "done"]
    ELSE [call EXCEPT !.pc = pc]

\* addAccount up to its await.
FP_addAccount(c, accountData) ==
    /\ impl = "single"
    /\ NextOp(c)
    /\ nextId <= MaxAdds
    /\ calls' = [calls EXCEPT ![c] =
            FP_started(StoreCall("addAccount", accountData, ""), "insert")]
    /\ UNCHANGED <<impl, authVars, accounts, transactions, loading,
                   dbAccounts, dbTransactions, nextId, fetches, initial,
                   failures, calc, budgets, csv, api, remote, http>>

\* The insert into accounts answers; on success the returned row is put
\* first in the local collection.
FP_addAccount_insert(c, ok) ==
    /\ impl = "single"
    /\ calls[c].pc = "insert" /\ calls[c].kind = "addAccount"
    /\ LET call == calls[c]
           row == [id |-> NewIds[nextId], user_id |-> call.asUser,
                   name |-> call.draft.name, balance |-> call.draft.balance,
                   created_at |-> CreatedAt]
           sent == Issue(call, Req("insert", "accounts", "", call.draft, ok))
       IN  IF ok
           THEN /\ remote' = [remote EXCEPT !.accounts = @ \cup {row}]
                /\ nextId' = nextId + 1
                /\ accounts' = Prepend(FP_loadedAccount(row), accounts)
                /\ calls' = [calls EXCEPT ![c] =
                        Succeeded([sent EXCEPT !.data = row])]
                /\ UNCHANGED failures
           ELSE /\ calls' = [calls EXCEPT ![c] = Caught(sent)]
                /\ failures' = failures + 1
                /\ failures' <= MaxFailures
                /\ UNCHANGED <<remote, nextId, accounts>>
    /\ UNCHANGED <<impl, authVars, transactions, loading, dbAccounts,
                   dbTransactions, fetches, initial, calc, budgets, csv, api, http>>

\* updateAccount up to its await.
FP_updateAccount(c, id, accountData) ==
    /\ impl = "single"
    /\ NextOp(c)
    /\ calls' = [calls EXCEPT ![c] =
            FP_started(StoreCall("updateAccount", accountData, id), "update")]
    /\ UNCHANGED <<impl, authVars, accounts, transactions, loading,
                   dbAccounts, dbTransactions, nextId, fetches, initial,
                   failures, calc, budgets, csv, api, remote, http>>

\* The update of accounts answers; on success the partial is merged into
\* the local record of that id.
FP_updateAccount_update(c, ok) ==
    /\ impl = "single"
    /\ calls[c].pc = "update" /\ calls[c].kind = "updateAccount"
    /\ LET call == calls[c]
           updateData == AccountUpdateData(call.draft)
           sent == Issue(call, Req("update", "accounts", call.txid,
                                   updateData, ok))
       IN  IF ok
           THEN /\ remote' = [remote EXCEPT !.accounts =
                        UpdateRows(@, call.txid, call.asUser, updateData)]
                /\ accounts' = MergeWhereId(accounts, call.txid, call.draft)
                /\ calls' = [calls EXCEPT ![c] = Succeeded(sent)]
                /\ UNCHANGED failures
           ELSE /\ calls' = [calls EXCEPT ![c] = Caught(sent)]
                /\ failures' = failures + 1
                /\ failures' <= MaxFailures
                /\ UNCHANGED <<remote, accounts>>
    /\ UNCHANGED <<impl, authVars, transactions, loading, dbAccounts,
                   dbTransactions, nextId, fetches, initial, calc, budgets,
                   csv, api, http>>

\* deleteAccount up to its await.
FP_deleteAccount(c, id) ==
    /\ impl = "single"
    /\ NextOp(c)
    /\ calls' = [calls EXCEPT ![c] =
            FP_started(StoreCall("deleteAccount", <<>>, id), "delete")]
    /\ UNCHANGED <<impl, authVars, accounts, transactions, loading,
                   dbAccounts, dbTransactions, nextId, fetches, initial,
                   failures, calc, budgets, csv, api, remote, http>>

\* The delete from accounts answers; on success the id is filtered out of
\* the local collection.
FP_deleteAccount_delete(c, ok) ==
    /\ impl = "single"
    /\ calls[c].pc = "delete" /\ calls[c].kind = "deleteAccount"
    /\ LET call == calls[c]
           sent == Issue(call, Req("delete", "accounts", call.txid, "", ok))
       IN  IF ok
           THEN /\ remote' = [remote EXCEPT !.accounts =
                        DeleteRows(@, call.txid, call.asUser)]
                /\ accounts' = FilterOutId(accounts, call.txid)
                /\ calls' = [calls EXCEPT ![c] = Succeeded(sent)]
                /\ UNCHANGED failures
           ELSE /\ calls' = [calls EXCEPT ![c] = Caught(sent)]
                /\ failures' = failures + 1
                /\ failures' <= MaxFailures
                /\ UNCHANGED <<remote, accounts>>
    /\ UNCHANGED <<impl, authVars, transactions, loading, dbAccounts,
                   dbTransactions, nextId, fetches, initial, calc, budgets,
                   csv, api, http>>

\* addBudget up to its await.
FP_addBudget(c, budgetData) ==
    /\ impl = "single"
    /\ NextOp(c)
    /\ nextId <= MaxAdds
    /\ calls' = [calls EXCEPT ![c] =
            FP_started(StoreCall("addBudget", budgetData, ""), "insert")]
    /\ UNCHANGED <<impl, authVars, accounts, transactions, loading,
                   dbAccounts, dbTransactions, nextId, fetches, initial,
                   failures, calc, budgets, csv, api, remote, http>>

\* The insert into budgets answers; on success the returned row is put
\* first in the local collection.
FP_addBudget_insert(c, ok) ==
    /\ impl = "single"
    /\ calls[c].pc = "insert" /\ calls[c].kind = "addBudget"
    /\ LET call == calls[c]
           row == [id |-> NewIds[nextId], user_id |-> call.asUser,
                   category |-> call.draft.category,
                   budget_limit |-> call.draft.limit, spent |-> 0,
                   created_at |-> CreatedAt]
           sent == Issue(call, Req("insert", "budgets", "", call.draft, ok))
       IN  IF ok
           THEN /\ remote' = [remote EXCEPT !.budgets = @ \cup {row}]
                /\ nextId' = nextId + 1
                /\ budgets' = Prepend(FP_loadedBudget(row), budgets)
                /\ calls' = [calls EXCEPT ![c] =
                        Succeeded([sent EXCEPT !.data = row])]
                /\ UNCHANGED failures
           ELSE /\ calls' = [calls EXCEPT ![c] = Caught(sent)]
                /\ failures' = failures + 1
                /\ failures' <= MaxFailures
                /\ UNCHANGED <<remote, nextId, budgets>>
    /\ UNCHANGED <<impl, authVars, accounts, transactions, loading,
                   dbAccounts, dbTransactions, fetches, initial, calc, csv,
                   api, http>>

\* updateBudget up to its await.
FP_updateBudget(c, id, budgetData) ==
    /\ impl = "single"
    /\ NextOp(c)
    /\ calls' = [calls EXCEPT ![c] =
            FP_started(StoreCall("updateBudget", budgetData, id), "update")]
    /\ UNCHANGED <<impl, authVars, accounts, transactions, loading,
                   dbAccounts, dbTransactions, nextId, fetches, initial,
                   failures, calc, budgets, csv, api, remote, http>>

\* The update of budgets answers; on success the partial is merged into
\* the local record of that id.
FP_updateBudget_update(c, ok) ==
    /\ impl = "single"
    /\ calls[c].pc = "update" /\ calls[c].kind = "updateBudget"
    /\ LET call == calls[c]
           updateData == BudgetUpdateData(call.draft)
           sent == Issue(call, Req("update", "budgets", call.txid,
                                   updateData, ok))
       IN  IF ok
           THEN /\ remote' = [remote EXCEPT !.budgets =
                        UpdateRows(@, call.txid, call.asUser, updateData)]
                /\ budgets' = MergeWhereId(budgets, call.txid, call.draft)
                /\ calls' = [calls EXCEPT ![c] = Succeeded(sent)]
                /\ UNCHANGED failures
           ELSE /\ calls' = [calls EXCEPT ![c] = Caught(sent)]
                /\ failures' = failures + 1
                /\ failures' <= MaxFailures
                /\ UNCHANGED <<remote, budgets>>
    /\ UNCHANGED <<impl, authVars, accounts, transactions, loading,
                   dbAccounts, dbTransactions, nextId, fetches, initial,
                   calc, csv, api, http>>

\* The REST backend of the accounts, as the client's code expects it: POST
\* creates a row for the bearer and returns it, PUT merges the body into
\* the bearer's row of that id and returns the row, DELETE removes it; each
\* rejects a request without a bearer token, and PUT one that names no row
\* of the bearer.
Rest_account(r) ==
    [id |-> r.id, name |-> r.name, balance |-> r.balance,
     createdAt |-> r.created_at]
Rest_rows(id, token) ==
    {r \in remote.accounts : r.id = id /\ TokenOf(r.user_id) = token}

\* addAccount up to its await: the POST is sent.
Core_addAccount(c, accountData) ==
    /\ impl = "core"
    /\ NextOp(c)
    /\ nextId <= MaxAdds
    /\ calls' = [calls EXCEPT ![c] =
            [StoreCall("addAccount", accountData, "") EXCEPT !.pc = "post"]]
    /\ UNCHANGED <<impl, authVars, accounts, transactions, loading,
                   dbAccounts, dbTransactions, nextId, fetches, initial,
                   failures, calc, budgets, csv, api, remote, http>>

\* The backend handles POST /api/accounts.
Core_addAccount_post(c, ok) ==
    /\ impl = "core"
    /\ calls[c].pc = "post" /\ calls[c].kind = "addAccount"
    /\ LET call == calls[c]
           accepted == ok /\ call.token # NoToken
           row == [id |-> NewIds[nextId], user_id |-> call.token,
                   name |-> call.draft.name, balance |-> call.draft.balance,
                   created_at |-> CreatedAt]
           sent == Issue(call, Req("post", "accounts", "", call.draft,
                                   accepted))
       IN  IF accepted
           THEN /\ remote' = [remote EXCEPT !.accounts = @ \cup {row}]
                /\ nextId' = nextId + 1
                /\ calls' = [calls EXCEPT ![c] =
                        [sent EXCEPT !.pc = "posted", !.data = row]]
                /\ UNCHANGED failures
           ELSE /\ calls' = [calls EXCEPT ![c] =
                        [sent EXCEPT !.pc = "done", !.outcome = "error"]]
                /\ failures' = failures + 1
                /\ failures' <= MaxFailures
                /\ UNCHANGED <<remote, nextId>>
    /\ UNCHANGED <<impl, authVars, accounts, transactions, loading,
                   dbAccounts, dbTransactions, fetches, initial, calc,
                   budgets, csv, api, http>>

\* addAccount after its await: the returned account is put first.
Core_addAccount_then(c) ==
    /\ impl = "core"
    /\ calls[c].pc = "posted" /\ calls[c].kind = "addAccount"
    /\ accounts' = Prepend(Rest_account(calls[c].data), accounts)
    /\ calls' = [calls EXCEPT ![c] = Succeeded(@)]
    /\ UNCHANGED <<impl, authVars, transactions, loading, dbAccounts,
                   dbTransactions, nextId, fetches, initial, failures, calc,
                   budgets, csv, api, remote, http>>

\* updateAccount up to its await: the PUT is sent with accountData as body.
Core_updateAccount(c, id, accountData) ==
    /\ impl = "core"
    /\ NextOp(c)
    /\ calls' = [calls EXCEPT ![c] =
            [StoreCall("updateAccount", accountData, id) EXCEPT !.pc = "put"]]
    /\ UNCHANGED <<impl, authVars, accounts, transactions, loading,
                   dbAccounts, dbTransactions, nextId, fetches, initial,
                   failures, calc, budgets, csv, api, remote, http>>

\* The backend handles PUT /api/accounts/:id.
Core_updateAccount_put(c, ok) ==
    /\ impl = "core"
    /\ calls[c].pc = "put" /\ calls[c].kind = "updateAccount"
    /\ LET call == calls[c]
           rows == Rest_rows(call.txid, call.token)
           accepted == ok /\ call.token # NoToken /\ rows # {}
           row == Merge(CHOOSE r \in rows : TRUE, call.draft)
           sent == Issue(call, Req("put", "accounts", call.txid, call.draft,
                                   accepted))
       IN  IF accepted
           THEN /\ remote' = [remote EXCEPT !.accounts = (@ \ rows) \cup {row}]
                /\ calls' = [calls EXCEPT ![c] =
                        [sent EXCEPT !.pc = "answered", !.data = row]]
                /\ UNCHANGED failures
           ELSE /\ calls' = [calls EXCEPT ![c] =
                        [sent EXCEPT !.pc = "done", !.outcome = "error"]]
                /\ failures' = failures + 1
                /\ failures' <= MaxFailures
                /\ UNCHANGED remote
    /\ UNCHANGED <<impl, authVars, accounts, transactions, loading,
                   dbAccounts, dbTransactions, nextId, fetches, initial,
                   calc, budgets, csv, api, http>>

\* updateAccount after its await: the returned account is put in place of
\* the local record of that id.
Core_updateAccount_then(c) ==
    /\ impl = "core"
    /\ calls[c].pc = "answered" /\ calls[c].kind = "updateAccount"
    /\ accounts' = ReplaceWhereId(accounts, calls[c].txid,
                                  Rest_account(calls[c].data))
    /\ calls' = [calls EXCEPT ![c] = Succeeded(@)]
    /\ UNCHANGED <<impl, authVars, transactions, loading, dbAccounts,
                   dbTransactions, nextId, fetches, initial, failures, calc,
                   budgets, csv, api, remote, http>>

\* deleteAccount up to its await: the DELETE is sent.
Core_deleteAccount(c, id) ==
    /\ impl = "core"
    /\ NextOp(c)
    /\ calls' = [calls EXCEPT ![c] =
            [StoreCall("deleteAccount", <<>>, id) EXCEPT !.pc = "del"]]
    /\ UNCHANGED <<impl, authVars, accounts, transactions, loading,
                   dbAccounts, dbTransactions, nextId, fetches, initial,
                   failures, calc, budgets, csv, api, remote, http>>

\* The backend handles DELETE /api/accounts/:id.
Core_deleteAccount_del(c, ok) ==
    /\ impl = "core"
    /\ calls[c].pc = "del" /\ calls[c].kind = "deleteAccount"
    /\ LET call == calls[c]
           accepted == ok /\ call.token # NoToken
           sent == Issue(call, Req("del", "accounts", call.txid, "",
                                   accepted))
       IN  IF accepted
           THEN /\ remote' = [remote EXCEPT !.accounts =
                        @ \ Rest_rows(call.txid, call.token)]
                /\ calls' = [calls EXCEPT ![c] =
                        [sent EXCEPT !.pc = "answered"]]
                /\ UNCHANGED failures
           ELSE /\ calls' = [calls EXCEPT ![c] =
                        [sent EXCEPT !.pc = "done", !.outcome = "error"]]
                /\ failures' = failures + 1
                /\ failures' <= MaxFailures
                /\ UNCHANGED remote
    /\ UNCHANGED <<impl, authVars, accounts, transactions, loading,
                   dbAccounts, dbTransactions, nextId, fetches, initial,
                   calc, budgets, csv, api, http>>

\* deleteAccount after its await: the id is filtered out of the local
\* collection.
Core_deleteAccount_then(c) ==
    /\ impl = "core"
    /\ calls[c].pc = "answered" /\ calls[c].kind = "deleteAccount"
    /\ accounts' = FilterOutId(accounts, calls[c].txid)
    /\ calls' = [calls EXCEPT ![c] = Succeeded(@)]
    /\ UNCHANGED <<impl, authVars, transactions, loading, dbAccounts,
                   dbTransactions, nextId, fetches, initial, failures, calc,
                   budgets, csv, api, remote, http>>

\* The rows of the remote tables of a store run: the user's two accounts
\* and budget and another user's account; the balance of the first account
\* as loaded, or as a transaction whose re-load failed has left it.
StoreAccountRows(balance) ==
    {[id |-> "a1", user_id |-> "u1", name |-> "Main", balance |-> balance,
      created_at |-> 1],
     [id |-> "a2", user_id |-> "u1", name |-> "Side", balance |-> 0,
      created_at |-> 2],
     [id |-> "a3", user_id |-> "u2", name |-> "Main", balance |-> 50,
      created_at |-> 3]}
StoreBudgetRows ==
    {[id |-> "b1", user_id |-> "u1", category |-> "Food",
      budget_limit |-> 100, spent |-> 0, created_at |-> 1]}
LoadedBalance == 100
RemoteBalances == {100, 70}

InitStore ==
    /\ impl \in {"single", "core"}
    /\ user \in Users \cup {NoUser}
    /\ authToken = TokenOf(user)
    /\ effectFor = user
    /\ accounts = FP_setAccounts(OrderDesc(SelectForUser(
                                 StoreAccountRows(LoadedBalance), user),
                                 "created_at"))
    /\ transactions = <<>>
    /\ loading = FALSE
    /\ nextId = 1
    /\ dbAccounts \in [AccountIds -> {100}]
    /\ dbTransactions = {}
    /\ calls = [c \in OpSlots |-> NoCall]
    /\ fetches = <<>>
    /\ initial = dbAccounts
    /\ failures = 0
    /\ calc = CalcIdle
    /\ budgets = IF impl = "single"
                 THEN FP_setBudgets(OrderDesc(
                          SelectForUser(StoreBudgetRows, user), "created_at"))
                 ELSE <<>>
    /\ csv = NoCsv
    /\ http = NoHttp
    /\ api = NoApi
    /\ remote \in {[accounts |-> StoreAccountRows(b), transactions |-> {},
                    budgets |-> StoreBudgetRows] : b \in RemoteBalances}

NextStore ==
    \/ \E c \in OpSlots, d \in AccountDrafts : FP_addAccount(c, d)
    \/ \E c \in OpSlots, ok \in BOOLEAN : FP_addAccount_insert(c, ok)
    \/ \E c \in OpSlots, id \in AccountIdArgs, d \in AccountPartials :
          FP_updateAccount(c, id, d)
    \/ \E c \in OpSlots, ok \in BOOLEAN : FP_updateAccount_update(c, ok)
    \/ \E c \in OpSlots, id \in AccountIdArgs : FP_deleteAccount(c, id)
    \/ \E c \in OpSlots, ok \in BOOLEAN : FP_deleteAccount_delete(c, ok)
    \/ \E c \in OpSlots, d \in BudgetDrafts : FP_addBudget(c, d)
    \/ \E c \in OpSlots, ok \in BOOLEAN : FP_addBudget_insert(c, ok)
    \/ \E c \in OpSlots, id \in BudgetIdArgs, d \in BudgetPartials :
          FP_updateBudget(c, id, d)
    \/ \E c \in OpSlots, ok \in BOOLEAN : FP_updateBudget_update(c, ok)
    \/ \E c \in OpSlots, d \in AccountDrafts : Core_addAccount(c, d)
    \/ \E c \in OpSlots, ok \in BOOLEAN : Core_addAccount_post(c, ok)
    \/ \E c \in OpSlots : Core_addAccount_then(c)
    \/ \E c \in OpSlots, id \in AccountIdArgs, d \in AccountPartials :
          Core_updateAccount(c, id, d)
    \/ \E c \in OpSlots, ok \in BOOLEAN : Core_updateAccount_put(c, ok)
    \/ \E c \in OpSlots : Core_updateAccount_then(c)
    \/ \E c \in OpSlots, id \in AccountIdArgs : Core_deleteAccount(c, id)
    \/ \E c \in OpSlots, ok \in BOOLEAN : Core_deleteAccount_del(c, ok)
    \/ \E c \in OpSlots : Core_deleteAccount_then(c)

SpecStore == InitStore /\ [][NextStore]_vars

\* A store operation of the given kind ends with success in this step.
OpSucceeds(c, kind) ==
    /\ calls[c].pc # "done"
    /\ calls'[c].pc = "done"
    /\ calls'[c].outcome = "success"
    /\ calls'[c].kind = kind

---------------------------------------------------------------------------
\* The order of the local transaction list: addTransaction of the three
\* stores, handed drafts of two dates, after the load.

\* The drafts of an order run: one expense for the first account, dated on
\* either day.
OrderDrafts ==
    {d \in Drafts :
        /\ d.description = "Cafe" /\ d.amount = 30 /\ d.type = "expense"
        /\ d.account = (IF impl = "single" THEN "Main" ELSE "a1")}

InitOrder ==
    /\ impl \in {"single", "split", "core"}
    /\ user \in Users
    /\ authToken = TokenOf(user)
    /\ effectFor = user
    /\ dbAccounts \in [AccountIds -> {100}]
    /\ accounts = LoadedAccounts(dbAccounts)
    /\ transactions = <<>>
    /\ loading = FALSE
    /\ dbTransactions = {}
    /\ nextId = 1
    /\ calls = [c \in Slots |-> NoCall]
    /\ fetches = <<>>
    /\ initial = dbAccounts
    /\ failures = 0
    /\ calc = CalcIdle
    /\ budgets = <<>>
    /\ csv = NoCsv
    /\ http = NoHttp
    /\ api = NoApi
    /\ remote = NoRemote

NextOrder ==
    \/ \E c \in Slots, d \in OrderDrafts : FP_addTransaction(c, d)
    \/ \E c \in Slots, ok \in BOOLEAN : FP_addTransaction_insert(c, ok)
    \/ \E c \in Slots, ok \in BOOLEAN : FP_addTransaction_update(c, ok)
    \/ \E c \in Slots, d \in OrderDrafts : TP_addTransaction(c, d)
    \/ \E c \in Slots, ok \in BOOLEAN : TP_addTransaction_insert(c, ok)
    \/ \E c \in Slots, d \in OrderDrafts : Core_addTransaction(c, d)
    \/ \E c \in Slots, ok \in BOOLEAN : Core_addTransaction_post(c, ok)
    \/ \E c \in Slots : Core_addTransaction_then(c)
    \/ \E f \in 1..MaxFetches, ok \in BOOLEAN : Core_get_accounts(f, ok)
    \/ \E f \in 1..MaxFetches, ok \in BOOLEAN : Core_get_transactions(f, ok)
    \/ \E f \in 1..MaxFetches : Core_fetchData_then(f)

SpecOrder == InitOrder /\ [][NextOrder]_vars

\* A list of transactions is ordered by date, latest first.
OrderedByDateDesc(txs) ==
    \A i \in 1..Len(txs) : \A j \in 1..Len(txs) :
        i < j => txs[i].date >= txs[j].date

\* C18: after every successful addTransaction, in each store, the local
\* transaction list is ordered by date descending, also when the added
\* transaction is dated earlier or later than those already in the list.
C18_AddKeepsDateOrder ==
    [][\A c \in Slots :
          (/\ calls[c].pc # "done"
           /\ calls'[c].pc = "done"
           /\ calls'[c].kind = "add"
           /\ calls'[c].outcome = "success")
              => OrderedByDateDesc(transactions')]_vars

\* The last remote request a call has issued.
LastReq(call) == call.reqs[Len(call.reqs)]
\* The fields of a local record that a partial does not name are the same
\* in both records, and the fields it names hold the partial's values.
MergedExactly(before, after, partial) ==
    /\ DOMAIN after = DOMAIN before
    /\ \A k \in DOMAIN before :
          after[k] = IF k \in DOMAIN partial THEN partial[k] ELSE before[k]
\* Every record but the one of the given id is unchanged, in its place.
OthersUnchanged(before, after, id) ==
    /\ Len(after) = Len(before)
    /\ \A i \in 1..Len(before) :
          /\ after[i].id = before[i].id
          /\ before[i].id # id => after[i] = before[i]

\* C19: after a successful update(id, partial) (updateAccount of the single
\* provider and of FinancialCoreProvider, updateBudget of the single
\* provider) the payload sent to the remote store holds only the fields
\* present in the partial, with the partial's values; the local record of
\* that id has exactly those fields replaced and every other field
\* unchanged; every other record, the order of the collection and the ids
\* in it are unchanged.
C19_UpdateMergesPartial ==
    [][\A c \in OpSlots :
          /\ OpSucceeds(c, "updateAccount") =>
                LET id == calls[c].txid
                    partial == calls[c].draft
                    payload == LastReq(calls'[c]).value
                IN  /\ DOMAIN payload \subseteq DOMAIN partial
                    /\ \A k \in DOMAIN payload : payload[k] = partial[k]
                    /\ OthersUnchanged(accounts, accounts', id)
                    /\ \A i \in 1..Len(accounts) :
                          accounts[i].id = id =>
                              MergedExactly(accounts[i], accounts'[i], partial)
                    /\ budgets' = budgets
          /\ OpSucceeds(c, "updateBudget") =>
                LET id == calls[c].txid
                    partial == calls[c].draft
                    payload == LastReq(calls'[c]).value
                IN  /\ \A k \in DOMAIN payload :
                          IF k = "budget_limit"
                          THEN "limit" \in DOMAIN partial
                               /\ payload[k] = partial["limit"]
                          ELSE k \in DOMAIN partial
                               /\ payload[k] = partial[k]
                    /\ OthersUnchanged(budgets, budgets', id)
                    /\ \A i \in 1..Len(budgets) :
                          budgets[i].id = id =>
                              MergedExactly(budgets[i], budgets'[i], partial)
                    /\ accounts' = accounts
      ]_vars

\* The ids of the records of a local collection.
IdsOf(s) == {s[i].id : i \in 1..Len(s)}
\* A call has had its remote delete answered with success.
RemoteDeleted(call) ==
    \E i \in 1..Len(call.reqs) :
        /\ call.reqs[i].op \in {"delete", "del"}
        /\ call.reqs[i].table = "accounts"
        /\ call.reqs[i].key = call.txid
        /\ call.reqs[i].ok

\* C20: deleteAccount removes from the local collection only after its
\* remote delete has succeeded: a step in which an id leaves the local
\* accounts is the step that ends a deleteAccount of that id with success,
\* its remote delete answered with success before; that step removes
\* exactly the records of that id and leaves the others and their order
\* unchanged; when the id is absent from the local collection the
\* collection is unchanged; and a deleteAccount that has not succeeded
\* changes nothing locally.
C20_DeleteAfterRemote ==
    [][/\ \A id \in IdsOf(accounts) \ IdsOf(accounts') :
            \E c \in OpSlots :
                /\ OpSucceeds(c, "deleteAccount")
                /\ calls[c].txid = id
       /\ \A c \in OpSlots :
             /\ OpSucceeds(c, "deleteAccount") =>
                   /\ RemoteDeleted(calls'[c])
                   /\ accounts' =
                        SelectSeq(accounts,
                                  LAMBDA a : a.id # calls[c].txid)
                   /\ calls[c].txid \notin IdsOf(accounts) =>
                         accounts' = accounts
                   /\ budgets' = budgets
             /\ (/\ calls'[c].kind = "deleteAccount"
                 /\ calls'[c] # calls[c]
                 /\ ~OpSucceeds(c, "deleteAccount")) =>
                   accounts' = accounts
      ]_vars

\* C20 witness: a deleteAccount of the first account has ended with
\* success: the account's row is gone from the remote store and the local
\* collection holds the other account alone.
C20_Witness ==
    \E c \in OpSlots :
        /\ calls[c].kind = "deleteAccount" /\ calls[c].outcome = "success"
        /\ calls[c].txid = "a1"
        /\ RemoteDeleted(calls[c])
        /\ \A r \in remote.accounts : r.id # "a1"
        /\ Len(accounts) = 1 /\ accounts[1].id = "a2"

---------------------------------------------------------------------------
\* The gateway (api.ts): apiClient hands the response of fetch to
\* handleResponse.

\* response.status of a response with no content.
NoContent == 204

\* The responses fetch resolves with: the status, the status text (empty
\* under HTTP/2), and the body: no JSON text, the JSON null, or a JSON
\* object with a message, with an empty message or without one.
Statuses == {200, 201, 204, 400, 401, 404, 500}
StatusTexts == {"", "Not Found"}
Bodies ==
    {[kind |-> "text"], [kind |-> "null"],
     [kind |-> "object", fields |-> [message |-> "Conta inexistente"]],
     [kind |-> "object", fields |-> [message |-> ""]],
     [kind |-> "object", fields |-> [error |-> "not_found"]]}
Responses == [status : Statuses, statusText : StatusTexts, body : Bodies]

\* response.ok
ResponseOk(response) == response.status \in 200..299

\* response.json(): rejects when the body is no JSON text.
JsonRejects(response) == response.body.kind = "text"
\* obj.message of a parsed object: undefined without the field.
Undefined == "undefined"
MessageOf(fields) ==
    IF "message" \in DOMAIN fields THEN fields.message ELSE Undefined
\* a || b over strings and undefined
OrElse(a, b) == IF a = Undefined \/ a = "" THEN b ELSE a

\* errorData: the parsed body, { message: response.statusText } when the
\* parse rejects.
ErrorData(response) ==
    IF JsonRejects(response)
    THEN [kind |-> "object", fields |-> [message |-> response.statusText]]
    ELSE response.body

\* What the call has come to: the promise settled, the notifications shown.
Settled(response, outcome, value, error, toasts, parsed) ==
    [pc |-> "settled", response |-> response, outcome |-> outcome,
     value |-> value, error |-> error, toasts |-> toasts, parsed |-> parsed]

\* handleResponse
handleResponse(response) ==
    IF ResponseOk(response)
    THEN IF response.status = NoContent
         THEN Settled(response, "resolved", [kind |-> "null"], "", <<>>,
                      FALSE)
         ELSE IF JsonRejects(response)
              THEN Settled(response, "rejected", [kind |-> "none"],
                           "SyntaxError", <<>>, TRUE)
              ELSE Settled(response, "resolved", response.body, "", <<>>,
                           TRUE)
    ELSE IF ErrorData(response).kind = "null"
         THEN Settled(response, "rejected", [kind |-> "none"], "TypeError",
                      <<>>, TRUE)
         ELSE LET message == MessageOf(ErrorData(response).fields)
              IN  Settled(response, "rejected", [kind |-> "none"],
                          OrElse(message, "Request failed"),
                          <<OrElse(message,
                                   "Ocorreu um erro na requisicao.")>>,
                          TRUE)

\* fetch resolves with a response.
Api_fetch(response) ==
    /\ http.pc = "fetching"
    /\ http' = [pc |-> "response", response |-> response]
    /\ UNCHANGED <<impl, authVars, accounts, transactions, loading,
                   dbAccounts, dbTransactions, nextId, calls, fetches,
                   initial, failures, calc, budgets, csv, api, remote>>

\* return handleResponse(response)
Api_handleResponse ==
    /\ http.pc = "response"
    /\ http' = handleResponse(http.response)
    /\ UNCHANGED <<impl, authVars, accounts, transactions, loading,
                   dbAccounts, dbTransactions, nextId, calls, fetches,
                   initial, failures, calc, budgets, csv, api, remote>>

InitGateway ==
    /\ impl = "core"
    /\ user \in Users
    /\ authToken = TokenOf(user)
    /\ effectFor = user
    /\ accounts = <<>>
    /\ transactions = <<>>
    /\ loading = FALSE
    /\ dbAccounts \in [AccountIds -> {100}]
    /\ dbTransactions = {}
    /\ nextId = 1
    /\ calls = [c \in Slots |-> NoCall]
    /\ fetches = <<>>
    /\ initial = dbAccounts
    /\ failures = 0
    /\ calc = CalcIdle
    /\ budgets = <<>>
    /\ csv = NoCsv
    /\ api = NoApi
    /\ remote = NoRemote
    /\ http = [pc |-> "fetching"]

NextGateway ==
    \/ \E response \in Responses : Api_fetch(response)
    \/ Api_handleResponse

SpecGateway == InitGateway /\ [][NextGateway]_vars

\* The message the body of a response carries: none when the body does not
\* parse, or parses to something without a message.
CarriesMessage(response) ==
    /\ response.body.kind = "object"
    /\ "message" \in DOMAIN response.body.fields
    /\ response.body.fields.message # ""

\* C21: for every non-success response the gateway shows one notification
\* and fails with an error whose message is the server-provided message
\* when the body carries one and the transport status text otherwise (body
\* unparsable, or parsable without a message); a success response produces
\* neither a notification nor an error, and a 204 yields an empty result
\* with no body parse.
C21_GatewayErrors ==
    http.pc = "settled" =>
        /\ ~ResponseOk(http.response) =>
              /\ Len(http.toasts) = 1
              /\ http.outcome = "rejected"
              /\ http.error = (IF CarriesMessage(http.response)
                               THEN http.response.body.fields.message
                               ELSE http.response.statusText)
        /\ ResponseOk(http.response) =>
              /\ http.toasts = <<>>
              /\ http.outcome = "resolved"
        /\ http.response.status = NoContent =>
              /\ http.value = [kind |-> "null"]
              /\ ~http.parsed

---------------------------------------------------------------------------
\* part_000: the operations of the REST stores over the gateway, followed
\* for what they show the user when a request fails.

\* The operations of FinancialCoreProvider, and the load of the
\* CreditCardsProvider and of the BudgetsProvider.
CoreLoads == {"fetchData", "loadCreditCards", "loadBudgets"}
CoreMutations == {"addAccount", "updateAccount", "deleteAccount",
                  "addTransaction", "deleteTransaction"}
CoreOps == CoreLoads \cup CoreMutations

\* An operation up to its await: a load sets loading, and the request is
\* handed to the gateway.
CoreOp_start(kind) ==
    /\ impl = "core"
    /\ user # NoUser
    /\ calls[1].pc = "idle"
    /\ http.pc = "off"
    /\ calls' = [calls EXCEPT ![1] =
            [NoCall EXCEPT !.kind = kind, !.pc = "await",
                           !.asUser = user, !.token = authToken]]
    /\ loading' = IF kind \in CoreLoads THEN TRUE ELSE loading
    /\ http' = [pc |-> "fetching"]
    /\ UNCHANGED <<impl, authVars, accounts, transactions, dbAccounts,
                   dbTransactions, nextId, fetches, initial, failures,
                   calc, budgets, csv, api, remote>>

\* fetch rejects (no connection, CORS, DNS): the rejection passes through
\* the gateway method, which has no catch; handleResponse is never called.
Api_fetch_rejects ==
    /\ http.pc = "fetching"
    /\ http' = Settled([status |-> 0, statusText |-> "",
                        body |-> [kind |-> "text"]],
                       "rejected", [kind |-> "null"], "Failed to fetch",
                       <<>>, FALSE)
    /\ UNCHANGED <<impl, authVars, accounts, transactions, loading,
                   dbAccounts, dbTransactions, nextId, calls, fetches,
                   initial, failures, calc, budgets, csv, api, remote>>

\* What the operation leaves in its call record when the gateway rejected:
\* fetchData catches and shows a destructive toast; the provider loads have
\* try/finally without a catch and the mutations no try at all, so their
\* promise rejects and nothing is shown by the store.
CoreOp_rejected(kind) == IF kind = "fetchData" THEN "error" ELSE "rejected"

\* The operation after its await.  Resolved: the parsed value is stored as
\* the code stores it and the success toast shown; addTransaction and
\* deleteTransaction then call fetchData.  Rejected: see CoreOp_rejected.
\* A load clears loading in its finally.
CoreOp_then ==
    /\ impl = "core"
    /\ calls[1].pc = "await"
    /\ http.pc = "settled"
    /\ LET kind == calls[1].kind
           ok == http.outcome = "resolved"
           v == http.value
           refetch == ok /\ kind \in {"addTransaction", "deleteTransaction"}
       IN  /\ accounts' =
                IF ~ok THEN accounts
                ELSE CASE kind = "fetchData" -> v
                       [] kind = "addAccount" -> Prepend(v, accounts)
                       [] kind = "updateAccount" ->
                              ReplaceWhereId(accounts, "a1", v)
                       [] kind = "deleteAccount" -> FilterOutId(accounts, "a1")
                       [] OTHER -> accounts
           /\ transactions' =
                IF ~ok THEN transactions
                ELSE CASE kind = "fetchData" -> v
                       [] kind = "addTransaction" ->
                              SortByDateDesc(Prepend(v, transactions))
                       [] kind = "deleteTransaction" ->
                              FilterOutId(transactions, 1)
                       [] OTHER -> transactions
           /\ budgets' = IF ok /\ kind = "loadBudgets" THEN v ELSE budgets
           /\ loading' = IF refetch THEN TRUE
                         ELSE IF kind \in CoreLoads THEN FALSE ELSE loading
           /\ calls' = [calls EXCEPT ![1] =
                IF refetch
                THEN [@ EXCEPT !.kind = "fetchData"]
                ELSE [@ EXCEPT !.pc = "done",
                               !.outcome = IF ok THEN "success"
                                           ELSE CoreOp_rejected(kind)]]
           /\ http' = IF refetch THEN [pc |-> "fetching"] ELSE http
    /\ UNCHANGED <<impl, authVars, dbAccounts, dbTransactions, nextId,
                   fetches, initial, failures, calc, csv, api, remote>>

InitNotify ==
    /\ impl = "core"
    /\ user \in Users
    /\ authToken = TokenOf(user)
    /\ effectFor = user
    /\ accounts = <<>>
    /\ transactions = <<>>
    /\ loading = FALSE
    /\ dbAccounts \in [AccountIds -> {100}]
    /\ dbTransactions = {}
    /\ nextId = 1
    /\ calls = [c \in Slots |-> NoCall]
    /\ fetches = <<>>
    /\ initial = dbAccounts
    /\ failures = 0
    /\ calc = CalcIdle
    /\ budgets = <<>>
    /\ csv = NoCsv
    /\ api = NoApi
    /\ remote = NoRemote
    /\ http = NoHttp

NextNotify ==
    \/ \E kind \in CoreOps : CoreOp_start(kind)
    \/ \E response \in Responses : Api_fetch(response)
    \/ Api_fetch_rejects
    \/ Api_handleResponse
    \/ CoreOp_then

SpecNotify == InitNotify /\ [][NextNotify]_vars

\* The operation in slot 1 has ended in a failure: its request was
\* rejected by the gateway.
OpFailed == calls[1].pc = "done" /\ calls[1].outcome # "success"

\* C22: every failure of a store operation (a load or a mutation, a remote
\* error as well as a transport failure) has shown the user at least one
\* notification: the store's own destructive toast or the gateway's.
C22_FailureNotifies ==
    OpFailed => (calls[1].outcome = "error" \/ Len(http.toasts) >= 1)

---------------------------------------------------------------------------
\* useFinancialCalculations.ts: the time series of the aggregation hook.

\* Days of a week; the calendar's first day is a Monday.
DaysInWeek == 3

\* date.getDay(): 0 is the Sunday, the week's last day; 1 the Monday.
getDay(date) == ((date \div TicksPerDay) + 1) % DaysInWeek

\* d.setDate(diff): the day moves, the time of day stays.
setDate(date, days) == date + days * TicksPerDay

\* diff = d.getDate() - day + (day === 0 ? -6 : 1)
getStartOfWeek(date) ==
    LET day == getDay(date)
    IN  setDate(date, (IF day = 0 THEN -(DaysInWeek - 1) ELSE 1) - day)
\* diff = d.getDate() - day + (day === 0 ? -6 : 1) + 6
getEndOfWeek(date) ==
    LET day == getDay(date)
    IN  setDate(date, (IF day = 0 THEN -(DaysInWeek - 1) ELSE 1) - day
                      + (DaysInWeek - 1))

\* new Date(year, 0, 1) and new Date(year, 11, 31): the calendar is one
\* year long.
getStartOfYear(date) == NewDate(0, 1)
getEndOfYear(date) == NewDate(MonthsInYear, 0)

SeriesPeriods == {"week", "month", "year"}

\* The getEnd argument the memo hands over with each period.
SeriesEnd(period, date) ==
    CASE period = "week" -> getEndOfWeek(date)
      [] period = "month" -> getEndOfMonth(date)
      [] OTHER -> getEndOfYear(date)

\* let currentDate = period === 'year' ? getStartOfYear(now) : ...
SeriesStart(period, now) ==
    CASE period = "week" -> getStartOfWeek(now)
      [] period = "month" -> getStartOfMonth(now)
      [] OTHER -> getStartOfYear(now)

\* Move to next period: the day after periodEnd for a week, the first of
\* the month after periodEnd's, the first of the year after periodEnd's.
SeriesNext(period, periodEnd) ==
    CASE period = "week" -> periodEnd + TicksPerDay
      [] period = "month" -> NewDate(MonthOf(periodEnd) + 1, 1)
      [] OTHER -> NewDate(MonthsInYear, 1)

\* periodLabel: the week's number within the year, the month, the year.
SeriesLabel(period, currentDate, now) ==
    CASE period = "week" ->
             ((currentDate - getStartOfYear(now))
                  \div (DaysInWeek * TicksPerDay)) + 1
      [] period = "month" -> MonthOf(currentDate)
      [] OTHER -> 0

\* One pass of the while loop: the transactions dated from currentDate to
\* periodEnd, summed by type.
SeriesPoint(period, currentDate, now, txs) ==
    LET periodEnd == SeriesEnd(period, currentDate)
        periodTransactions ==
            SelectSeq(txs, LAMBDA t : /\ t.date >= currentDate
                                      /\ t.date <= periodEnd)
        income == TotalAmount(OfType(periodTransactions, "income"))
        expenses == TotalAmount(OfType(periodTransactions, "expense"))
    IN  [week |-> SeriesLabel(period, currentDate, now),
         income |-> income, expenses |-> expenses,
         savings |-> income - expenses]

\* while (currentDate <= now) { ... data.push(...) ... }
RECURSIVE SeriesLoop(_, _, _, _)
SeriesLoop(period, currentDate, now, txs) ==
    IF currentDate <= now
    THEN <<SeriesPoint(period, currentDate, now, txs)>>
         \o SeriesLoop(period,
                       SeriesNext(period, SeriesEnd(period, currentDate)),
                       now, txs)
    ELSE <<>>

\* data.reverse()
Reversed(s) == [i \in 1..Len(s) |-> s[Len(s) + 1 - i]]

generateTimeSeriesData(period, now, txs) ==
    Reversed(SeriesLoop(period, SeriesStart(period, now), now, txs))

\* generateTimeSeriesData is applied to the hook's transactions at an
\* instant.
Calc_timeSeries(period, now) ==
    /\ calc' = [pc |-> "series", period |-> period, now |-> now,
                data |-> generateTimeSeriesData(
                             period, now,
                             filteredTransactions(transactions, NoRange))]
    /\ UNCHANGED <<impl, authVars, accounts, transactions, loading,
                   dbAccounts, dbTransactions, nextId, calls, fetches,
                   initial, failures, budgets, csv, api, remote, http>>

\* How the call of a binding fails whose declaration has not been
\* evaluated yet: a const in its dead zone, or an undefined var where the
\* build lowers const.
UninitializedCalls == {"ReferenceError", "TypeError"}

\* The hook renders: the calculations memo runs its callback at once and
\* calls generateTimeSeriesData (127), a const declared below the memo
\* (170) and not evaluated yet.
Calc_memo(error) ==
    /\ calc' = [pc |-> "memo", thrown |-> error]
    /\ UNCHANGED <<impl, authVars, accounts, transactions, loading,
                   dbAccounts, dbTransactions, nextId, calls, fetches,
                   initial, failures, budgets, csv, api, remote, http>>

NextSeries ==
    \/ \E period \in SeriesPeriods, now \in Instants :
          Calc_timeSeries(period, now)
    \/ \E error \in UninitializedCalls : Calc_memo(error)

SpecSeries == InitCalc /\ [][NextSeries]_vars

\* The calendar period of a date: its week (Monday to Sunday), its month,
\* the year.
PeriodOf(period, date) ==
    CASE period = "week" -> (date \div TicksPerDay) \div DaysInWeek
      [] period = "month" -> MonthOf(date)
      [] OTHER -> 0

\* The transactions of a type dated within the calendar period of now.
PeriodTotal(period, now, type) ==
    TotalAmount(SelectSeq(OfType(transactions, type),
        LAMBDA t : PeriodOf(period, t.date) = PeriodOf(period, now)))

\* C23: generateTimeSeriesData returns for week, month and year, with one
\* data point per calendar period it covers (the walk starts in the current
\* period and ends at now, so the current one), whose income and expenses
\* are the sums of that period's transactions and whose savings is income
\* minus expenses, zeros included; and the hook that calls it gets its
\* series.
C23_TimeSeries ==
    /\ calc.pc = "series" =>
          /\ Len(calc.data) = 1
          /\ calc.data[1].income = PeriodTotal(calc.period, calc.now, "income")
          /\ calc.data[1].expenses =
                 PeriodTotal(calc.period, calc.now, "expense")
          /\ calc.data[1].savings =
                 calc.data[1].income - calc.data[1].expenses
    /\ calc.pc # "memo"

---------------------------------------------------------------------------
\* Claims about overlapping mutations.

\* Two addTransaction calls that started from the same state, on the same
\* account, and have both ended with their success toast.
OverlappedAdds(c, d) ==
    /\ c < d
    /\ calls[c].kind = "add" /\ calls[d].kind = "add"
    /\ calls[c].pc = "done" /\ calls[d].pc = "done"
    /\ calls[c].outcome = "success" /\ calls[d].outcome = "success"
    /\ calls[c].acct.id = calls[d].acct.id
    /\ calls[c].before = calls[d].before

\* The balance the local list shows for an account id.
LocalBalance(id) ==
    LET i == CHOOSE i \in 1..Len(accounts) : accounts[i].id = id
    IN  accounts[i].balance

\* C24: when two addTransaction calls on the same account overlap and both
\* succeed, the account's remote balance is the balance they started from
\* plus both signed amounts, and the local balance equals it.
C24_OverlappingAdds ==
    \A c \in Slots, d \in Slots :
        OverlappedAdds(c, d) =>
            LET id == calls[c].acct.id
            IN  /\ dbAccounts[id] =
                       calls[c].before.dbAccounts[id]
                           + AddBalanceChange(calls[c].draft)
                           + AddBalanceChange(calls[d].draft)
                /\ LocalBalance(id) = dbAccounts[id]

---------------------------------------------------------------------------
\* Claims about whose records a store holds.

\* The ids of the rows of a remote table that belong to the signed-in user.
OwnedIds(rows) == {r.id : r \in RowsOfUser(rows)}

\* Every record of a local collection is one of the signed-in user's rows.
AllOwned(local, rows) ==
    \A i \in 1..Len(local) : local[i].id \in OwnedIds(rows)

\* C25: whenever a supabase-backed store is not loading, a user is signed
\* in and the load effect has run for that user, every record of the local
\* collections is a row of that user and none a row of a user signed in
\* before.
C25_RecordsOfUser ==
    (/\ impl # "core"
     /\ user # NoUser
     /\ effectFor = user
     /\ ~loading)
        => /\ AllOwned(accounts, remote.accounts)
           /\ AllOwned(transactions, remote.transactions)
           /\ AllOwned(budgets, remote.budgets)

---------------------------------------------------------------------------
\* Claims about failed mutations of the single provider.

\* A remote request of the call was answered with an error.
AnyRequestFailed(call) == \E i \in 1..Len(call.reqs) : ~call.reqs[i].ok

\* The local collections are those the call started from.
LocalAsBefore(call) ==
    /\ accounts = call.before.accounts
    /\ transactions = call.before.transactions

\* C26: in the single provider, once a mutation has ended (one call at a
\* time), if any of its remote requests failed the local collections are
\* exactly those it started from; and a mutation called without a user has
\* issued no remote request and changed nothing.
C26_FailedMutationKeepsLocal ==
    \A c \in Slots :
        (impl = "single" /\ AllFree /\ calls[c].pc = "done") =>
            /\ AnyRequestFailed(calls[c]) => LocalAsBefore(calls[c])
            /\ calls[c].asUser = NoUser =>
                  (calls[c].reqs = <<>> /\ LocalAsBefore(calls[c]))

---------------------------------------------------------------------------
\* The single provider with its account and transaction mutations side by
\* side: the accounts of a user are loaded, no transaction yet.

InitRefs ==
    /\ impl = "single"
    /\ user \in Users
    /\ authToken = TokenOf(user)
    /\ effectFor = user
    /\ accounts = FP_setAccounts(OrderDesc(SelectForUser(
                                 StoreAccountRows(LoadedBalance), user),
                                 "created_at"))
    /\ transactions = <<>>
    /\ loading = FALSE
    /\ nextId = 1
    /\ dbAccounts = [a \in AccountIds |-> IF a = "a1" THEN LoadedBalance ELSE 0]
    /\ dbTransactions = {}
    /\ calls = [c \in OpSlots |-> NoCall]
    /\ fetches = <<>>
    /\ initial = dbAccounts
    /\ failures = 0
    /\ calc = CalcIdle
    /\ budgets = <<>>
    /\ csv = NoCsv
    /\ http = NoHttp
    /\ api = NoApi
    /\ remote = [accounts |-> StoreAccountRows(LoadedBalance),
                 transactions |-> {}, budgets |-> {}]

\* The inputs of a run: transactions on the first account, updates that
\* rename an account or set its balance, the ids of a loaded account, of
\* the account the run creates and of no account.
RefsDrafts == {d \in LedgerDrafts : d.account = "Main" /\ d.type = "income"}
RefsPartials == {[name |-> "Renamed"], [balance |-> 5]}
RefsIds == {"a1", "n1", "zz"}

\* The mutations are called one after the other.
NextRefs ==
    \/ \E c \in OpSlots, d \in AccountDrafts : AllFree /\ FP_addAccount(c, d)
    \/ \E c \in OpSlots, ok \in BOOLEAN : FP_addAccount_insert(c, ok)
    \/ \E c \in OpSlots, id \in RefsIds, d \in RefsPartials :
          AllFree /\ FP_updateAccount(c, id, d)
    \/ \E c \in OpSlots, ok \in BOOLEAN : FP_updateAccount_update(c, ok)
    \/ \E c \in OpSlots, id \in RefsIds : AllFree /\ FP_deleteAccount(c, id)
    \/ \E c \in OpSlots, ok \in BOOLEAN : FP_deleteAccount_delete(c, ok)
    \/ \E c \in Slots, d \in RefsDrafts : AllFree /\ FP_addTransaction(c, d)
    \/ \E c \in Slots, ok \in BOOLEAN : FP_addTransaction_insert(c, ok)
    \/ \E c \in Slots, ok \in BOOLEAN : FP_addTransaction_update(c, ok)
    \/ \E c \in Slots, id \in 1..MaxTx : AllFree /\ FP_deleteTransaction(c, id)
    \/ \E c \in Slots, ok \in BOOLEAN : FP_deleteTransaction_rpc(c, ok)
    \/ \E c \in Slots, ok \in BOOLEAN : FP_deleteTransaction_select(c, ok)
    \/ \E c \in Slots, ok \in BOOLEAN : FP_deleteTransaction_update(c, ok)
    \/ \E c \in Slots, ok \in BOOLEAN : FP_deleteTransaction_delete(c, ok)

SpecRefs == InitRefs /\ [][NextRefs]_vars

\* The names of the accounts of the local list.
LocalAccountNames == {accounts[i].name : i \in 1..Len(accounts)}

\* C27: in the single provider, as long as no remote request has failed
\* and no mutation is in flight, every transaction of the local list names
\* an account of the local account list.
C27_TransactionsNameAccounts ==
    (/\ impl = "single"
     /\ failures = 0
     /\ \A c \in Slots :
           \/ calls[c].pc = "idle"
           \/ calls[c].pc = "done" /\ calls[c].outcome = "success")
        => \A i \in 1..Len(transactions) :
               transactions[i].account \in LocalAccountNames

---------------------------------------------------------------------------
\* Claims about the fallback of deleteTransaction.

\* A deleteTransaction call whose balance procedure failed and whose
\* fallback read has been answered.
FallbackRead(call) ==
    /\ call.kind = "delete"
    /\ Len(call.reqs) >= 2
    /\ call.reqs[1].op = "rpc" /\ ~call.reqs[1].ok
    /\ call.reqs[2].op = "select"

\* C28: in deleteTransaction, when the balance procedure has failed, the
\* fallback writes the balance it has just read plus the balance change
\* (also when that balance is 0), or, when the read failed, sends no
\* balance write and no delete of the transaction.
C28_FallbackBalance ==
    \A c \in Slots :
        FallbackRead(calls[c]) =>
            LET reqs == calls[c].reqs
            IN  IF reqs[2].ok
                THEN Len(reqs) >= 3 =>
                        /\ reqs[3].op = "update"
                        /\ reqs[3].value = reqs[2].value
                               + DeleteBalanceChange(calls[c].tx)
                ELSE Len(reqs) = 2

---------------------------------------------------------------------------
\* Claims about the promise of useApi's execute.

\* C29: once the retry sequence of an execute has ended, the promise
\* execute handed back has settled with its outcome: resolved with the
\* stored data when an attempt succeeded, rejected with the last error
\* when every attempt failed.
C29_PromiseFollowsRetries ==
    (api.pc = "settled" /\ api.promise.state # "none") =>
        IF api.error = NoError
        THEN api.promise = Resolved(api.data)
        ELSE /\ api.promise.state = "rejected"
             /\ ErrorMessage(api.promise.value) = api.error

---------------------------------------------------------------------------
\* AuthContext.tsx: the session, from the mount of AuthProvider on.  The
\* provider renders its children only once loading is false, so signIn,
\* signUp and signOut are called after the validation has ended.

\* What local storage holds at the mount: nothing, the token of a user, or
\* a token the backend no longer accepts.
StaleToken == "stale"
StoredTokens == {NoToken, StaleToken} \cup {TokenOf(u) : u \in LoadUsers}

\* GET /api/auth/me: the user a token stands for.
SessionUser(token) == CHOOSE u \in LoadUsers : TokenOf(u) = token
AcceptedToken(token) == \E u \in LoadUsers : TokenOf(u) = token

\* A call of the provider that awaits the gateway.
AuthCall(kind, u) ==
    [NoCall EXCEPT !.kind = kind, !.pc = "await", !.asUser = u,
                   !.token = authToken]

\* useEffect(() => { verifyToken() }, [verifyToken]) at the mount:
\* without a stored token loading is cleared at once, otherwise the
\* session request is sent.
Auth_verifyToken ==
    /\ loading
    /\ \A c \in Slots : calls[c].pc = "idle"
    /\ IF authToken = NoToken
       THEN /\ loading' = FALSE
            /\ calls' = [calls EXCEPT ![1] =
                    [NoCall EXCEPT !.kind = "verifyToken", !.pc = "done"]]
       ELSE /\ calls' = [calls EXCEPT ![1] = AuthCall("verifyToken", NoUser)]
            /\ UNCHANGED loading
    /\ UNCHANGED <<impl, authVars, accounts, transactions, dbAccounts,
                   dbTransactions, nextId, fetches, initial, failures,
                   calc, budgets, csv, api, remote, http>>

\* The session request answers: the user is set, or in the catch block
\* the token removed and the user cleared; then loading is cleared.
Auth_verifyToken_get(c, ok) ==
    /\ calls[c].kind = "verifyToken" /\ calls[c].pc = "await"
    /\ IF ok /\ AcceptedToken(calls[c].token)
       THEN /\ user' = SessionUser(calls[c].token)
            /\ calls' = [calls EXCEPT ![c] = Succeeded(@)]
            /\ UNCHANGED authToken
       ELSE /\ authToken' = removeItem(authToken)
            /\ user' = NoUser
            /\ calls' = [calls EXCEPT ![c] = Caught(@)]
    /\ loading' = FALSE
    /\ UNCHANGED <<impl, effectFor, accounts, transactions, dbAccounts,
                   dbTransactions, nextId, fetches, initial, failures,
                   calc, budgets, csv, api, remote, http>>

\* signIn up to its await: the login request is sent.
Auth_signIn_call(c, u) ==
    /\ ~loading
    /\ user = NoUser
    /\ Lowest(c)
    /\ calls' = [calls EXCEPT ![c] = AuthCall("signIn", u)]
    /\ UNCHANGED <<impl, authVars, accounts, transactions, loading,
                   dbAccounts, dbTransactions, nextId, fetches, initial,
                   failures, calc, budgets, csv, api, remote, http>>

\* The login request answers: the token is stored and the user set; a
\* rejection leaves signIn at its await, nothing after it runs.
Auth_signIn_post(c, ok) ==
    /\ calls[c].kind = "signIn" /\ calls[c].pc = "await"
    /\ IF ok
       THEN /\ authToken' = TokenOf(calls[c].asUser)
            /\ user' = calls[c].asUser
            /\ calls' = [calls EXCEPT ![c] = Succeeded(@)]
       ELSE /\ calls' = [calls EXCEPT ![c] = Caught(@)]
            /\ UNCHANGED <<user, authToken>>
    /\ UNCHANGED <<impl, effectFor, accounts, transactions, loading,
                   dbAccounts, dbTransactions, nextId, fetches, initial,
                   failures, calc, budgets, csv, api, remote, http>>

\* signUp up to its await: the register request is sent.
Auth_signUp_call(c, u) ==
    /\ ~loading
    /\ user = NoUser
    /\ Lowest(c)
    /\ calls' = [calls EXCEPT ![c] = AuthCall("signUp", u)]
    /\ UNCHANGED <<impl, authVars, accounts, transactions, loading,
                   dbAccounts, dbTransactions, nextId, fetches, initial,
                   failures, calc, budgets, csv, api, remote, http>>

\* The register request answers: neither the user nor the token is set.
Auth_signUp_post(c, ok) ==
    /\ calls[c].kind = "signUp" /\ calls[c].pc = "await"
    /\ calls' = [calls EXCEPT ![c] = IF ok THEN Succeeded(@) ELSE Caught(@)]
    /\ UNCHANGED <<impl, authVars, accounts, transactions, loading,
                   dbAccounts, dbTransactions, nextId, fetches, initial,
                   failures, calc, budgets, csv, api, remote, http>>

InitAuth ==
    /\ impl = "core"
    /\ user = NoUser
    /\ authToken \in StoredTokens
    /\ effectFor = Unmounted
    /\ accounts = <<>>
    /\ transactions = <<>>
    /\ loading = TRUE
    /\ dbAccounts = [a \in AccountIds |-> 0]
    /\ dbTransactions = {}
    /\ nextId = 1
    /\ calls = [c \in Slots |-> NoCall]
    /\ fetches = <<>>
    /\ initial = dbAccounts
    /\ failures = 0
    /\ calc = CalcIdle
    /\ budgets = <<>>
    /\ csv = NoCsv
    /\ http = NoHttp
    /\ api = NoApi
    /\ remote = NoRemote

NextAuth ==
    \/ Auth_verifyToken
    \/ \E c \in Slots, ok \in BOOLEAN : Auth_verifyToken_get(c, ok)
    \/ \E c \in Slots, u \in LoadUsers : Auth_signIn_call(c, u)
    \/ \E c \in Slots, ok \in BOOLEAN : Auth_signIn_post(c, ok)
    \/ \E c \in Slots, u \in LoadUsers : Auth_signUp_call(c, u)
    \/ \E c \in Slots, ok \in BOOLEAN : Auth_signUp_post(c, ok)
    \/ Auth_signOut

SpecAuth == InitAuth /\ [][NextAuth]_vars

\* Nobody is signed in and local storage holds no token.
SignedOut == user = NoUser /\ authToken = NoToken

\* C30: in every state a step leads to, a user is set only while local
\* storage holds a token; a signOut and a session validation that fails
\* leave no user and no token; a signIn whose request fails changes
\* neither the user nor the token.
C30_SessionToken ==
    [][/\ user' # NoUser => authToken' # NoToken
       /\ Auth_signOut => SignedOut'
       /\ \A c \in Slots :
             (Auth_verifyToken_get(c, FALSE)
                 \/ (Auth_verifyToken_get(c, TRUE)
                        /\ ~AcceptedToken(calls[c].token)))
                => SignedOut'
       /\ \A c \in Slots :
             Auth_signIn_post(c, FALSE) => UNCHANGED <<user, authToken>>]_vars

\* C30 witness: the validation of a stored token of a user has failed
\* (the request rejected) and has left no user and no token.
C30_Witness ==
    /\ calls[1].kind = "verifyToken" /\ calls[1].outcome = "error"
    /\ AcceptedToken(calls[1].token)
    /\ ~loading
    /\ SignedOut

====
